---- MODULE Spec2Model ----
(***************************************************************************)
(* Model of the hjkl key-sequence interpreter (src/src/app/input.rs) and   *)
(* the bounded histories it keeps (src/src/domain/types.rs), and of the    *)
(* cursor side: Position (src/src/core/position.rs), the motions           *)
(* (src/src/domain/motions, src/src/motions) and Cursor::apply_motion      *)
(* (src/src/domain/cursor.rs) over a Buffer (src/src/domain/buffer.rs),    *)
(* and of the game side: the Viewport (src/src/tui/viewport.rs), the       *)
(* Enemies with their pool (src/src/domain/enemies) and                    *)
(* Buffer::random_position.                                                *)
(*                                                                         *)
(* The InputManager is a per-keystroke reducer: handle_key dispatches on   *)
(* the InputState to handle_idle / handle_counting / handle_target /       *)
(* handle_combo and then pushes the key onto the key-event history.        *)
(***************************************************************************)
EXTENDS Integers, Sequences, FiniteSets, TLC

(***************************************************************************)
(* Program constants.                                                      *)
(***************************************************************************)
EVENT_HISTORY_LEN == 32
MOTION_HISTORY_LEN == 8
\* tui::theme::VIEWPORT_PADDING, the scroll padding of the default viewport
VIEWPORT_PADDING == 3
\* EnemyConfig::default().move_radius
MOVE_RADIUS == 3

(***************************************************************************)
(* Bounds of the exploration.                                              *)
(*   MaxCalls    calls (handle_key or reset) made besides the warm-up      *)
(*   WarmEsc     Esc keys of the warm-up script                            *)
(*   WarmLeft    'h' keys of the warm-up script                            *)
(***************************************************************************)
MaxCalls == 3
WarmEsc == 24
WarmLeft == 7
\* buffers given to Position's methods: rows and characters in all
PosMaxRows == 2
PosMaxChars == 4
\* buffers given to Motion::apply
MotMaxRows == 2
MotMaxChars == 3
\* buffers given to Cursor::apply_motion, besides StickyBuffer
CurMaxRows == 2
CurMaxChars == 3
\* the largest count passed to a motion
MaxCount == 3
\* the longest line given to word_boundaries
WordMaxChars == 4
\* BoundedQueue on its own: requested capacities, pushes made, and the
\* largest capacity the deque may take when it has to grow
QueueMaxCapacity == 3
QueueMaxPushes == 5
QueueMaxGrown == 4
\* handle_key calls made in a row on the fresh manager
MaxRepeat == 5
\* Viewport::adjust_for_cursor: buffer lines and window heights given to it
ViewMaxLines == 9
ViewMaxHeight == 8
\* EnemyConfig::pool_size
PoolSize == 3
\* buffers given to Buffer::random_position
RndMaxRows == 2
RndMaxChars == 3

(***************************************************************************)
(* crossterm KeyEvent: a key code (Char(c) or a named key) and modifiers.  *)
(***************************************************************************)
Key(code, ch, mods) == [code |-> code, ch |-> ch, mods |-> mods]
Char(c) == Key("Char", c, "NONE")
ShiftChar(c) == Key("Char", c, "SHIFT")
CtrlChar(c) == Key("Char", c, "CONTROL")
EscKey == Key("Esc", "", "NONE")

DigitChars == <<"0", "1", "2", "3", "4", "5", "6", "7", "8", "9">>

\* c @ '0'..='9'
IsDigit09(c) == \E i \in 1..10 : DigitChars[i] = c
\* c @ '1'..='9'
IsDigit19(c) == \E i \in 2..10 : DigitChars[i] = c
\* char::to_digit(10) on a decimal digit
ToDigit(c) == (CHOOSE i \in 1..10 : DigitChars[i] = c) - 1

(***************************************************************************)
(* Option<usize>                                                           *)
(***************************************************************************)
None == [some |-> FALSE, val |-> 0]
Some(n) == [some |-> TRUE, val |-> n]

(***************************************************************************)
(* Motion (src/src/domain/motions/motion.rs).  ch is the target character  *)
(* of the find/till variants and "" for the others.                        *)
(***************************************************************************)
Motion(kind, ch) == [kind |-> kind, ch |-> ch]
NoMotion == Motion("-", "")

\* is_find_till that forgets the till variants
is_find_till_no_till(m) ==
    m.kind \in {"FindNextChar", "FindPrevChar"}

is_find_till(m) ==
    m.kind \in {"FindNextChar", "FindPrevChar", "TillNextChar", "TillPrevChar"}

\* Option<Motion>: [some, m]
NoneMotion == [some |-> FALSE, m |-> NoMotion]
SomeMotion(m) == [some |-> TRUE, m |-> m]

\* reverse_find_till whose till arms yield find motions
reverse_find_till_as_find(m) ==
    CASE m.kind = "FindNextChar" -> SomeMotion(Motion("FindPrevChar", m.ch))
      [] m.kind = "FindPrevChar" -> SomeMotion(Motion("FindNextChar", m.ch))
      [] m.kind = "TillNextChar" -> SomeMotion(Motion("FindPrevChar", m.ch))
      [] m.kind = "TillPrevChar" -> SomeMotion(Motion("FindNextChar", m.ch))
      [] OTHER -> NoneMotion

reverse_find_till(m) ==
    CASE m.kind = "FindNextChar" -> SomeMotion(Motion("FindPrevChar", m.ch))
      [] m.kind = "FindPrevChar" -> SomeMotion(Motion("FindNextChar", m.ch))
      [] m.kind = "TillNextChar" -> SomeMotion(Motion("TillPrevChar", m.ch))
      [] m.kind = "TillPrevChar" -> SomeMotion(Motion("TillNextChar", m.ch))
      [] OTHER -> NoneMotion

(***************************************************************************)
(* UserAction                                                              *)
(***************************************************************************)
UserAction(tag, m, count) == [tag |-> tag, motion |-> m, count |-> count]
Noop == UserAction("Noop", NoMotion, None)
Pending == UserAction("Pending", NoMotion, None)
NewGame == UserAction("NewGame", NoMotion, None)
Quit == UserAction("Quit", NoMotion, None)
NoAction == UserAction("-", NoMotion, None)
single_motion(m) == UserAction("Motion", m, None)
repeated_motion(m, count) == UserAction("Motion", m, Some(count))

(***************************************************************************)
(* InputState.  n is the payload of Counting; letter/count the fields of   *)
(* AwaitingTarget (motion) and AwaitingCombo (prefix).                     *)
(***************************************************************************)
InputState(tag, n, letter, count) ==
    [tag |-> tag, n |-> n, letter |-> letter, count |-> count]
Idle == InputState("Idle", 0, "", None)
Counting(n) == InputState("Counting", n, "", None)
AwaitingTarget(motion, count) == InputState("AwaitingTarget", 0, motion, count)
AwaitingCombo(prefix, count) == InputState("AwaitingCombo", 0, prefix, count)

(***************************************************************************)
(* BoundedQueue<T>: a VecDeque created with_capacity(capacity).  The bound *)
(* is not stored: push compares len() with VecDeque::capacity().  A deque  *)
(* of capacity >= 1 never grows (push pops the front first when full), so  *)
(* its capacity stays the one it was created with; a deque of capacity 0   *)
(* has nothing to pop and push_back reallocates it.                        *)
(***************************************************************************)
BoundedQueueNew(capacity) == [items |-> <<>>, capacity |-> capacity]

BoundedQueueClear(q) == [q EXCEPT !.items = <<>>]

\* push that rejects the new item when the queue is full
BoundedQueuePush_reject_new(q, item) ==
    IF Len(q.items) = q.capacity
    THEN q
    ELSE [q EXCEPT !.items = Append(q.items, item)]

\* push, with the capacity VecDeque::push_back reallocates to when the deque
\* is still full after pop_front (pop_front of an empty deque is None)
BoundedQueuePushGrowing(q, item, grown) ==
    LET popped == IF Len(q.items) = q.capacity /\ q.items # <<>>
                  THEN Tail(q.items)
                  ELSE q.items
    IN [items |-> Append(popped, item),
        capacity |-> IF Len(popped) = q.capacity THEN grown ELSE q.capacity]

\* push on a queue of capacity >= 1, which never reallocates
BoundedQueuePush(q, item) == BoundedQueuePushGrowing(q, item, q.capacity)

\* Option<&T> of VecDeque::back: callers test BoundedQueueIsEmpty first
BoundedQueueIsEmpty(q) == Len(q.items) = 0
BoundedQueueLast(q) == q.items[Len(q.items)]

Reverse(s) == [i \in 1..Len(s) |-> s[Len(s) + 1 - i]]
BoundedQueueReverseIter(q) == Reverse(q.items)

(***************************************************************************)
(* The handlers.  Each takes the manager's state-machine fields and the    *)
(* key and yields the new InputState, the new motion history and the       *)
(* UserAction returned:  [state, motion_history, action].                  *)
(***************************************************************************)
Result(st, mh, action) == [state |-> st, motion_history |-> mh, action |-> action]

\* map_key_to_motion looking at the character alone, whatever the modifiers
map_key_to_motion_any_mods(key) ==
    CASE key.code = "Char" /\ key.ch = "h" -> SomeMotion(Motion("Left", ""))
      [] key.code = "Char" /\ key.ch = "l" -> SomeMotion(Motion("Right", ""))
      [] key.code = "Char" /\ key.ch = "j" -> SomeMotion(Motion("Down", ""))
      [] key.code = "Char" /\ key.ch = "k" -> SomeMotion(Motion("Up", ""))
      [] key.code = "Char" /\ key.ch = "w" -> SomeMotion(Motion("WordStart", ""))
      [] key.code = "Char" /\ key.ch = "e" -> SomeMotion(Motion("WordEnd", ""))
      [] key.code = "Char" /\ key.ch = "b" -> SomeMotion(Motion("WordBackward", ""))
      [] OTHER -> NoneMotion

\* InputManager::map_key_to_motion
map_key_to_motion(key) ==
    CASE key.code = "Char" /\ key.ch = "h" /\ key.mods = "NONE" -> SomeMotion(Motion("Left", ""))
      [] key.code = "Char" /\ key.ch = "l" /\ key.mods = "NONE" -> SomeMotion(Motion("Right", ""))
      [] key.code = "Char" /\ key.ch = "j" /\ key.mods = "NONE" -> SomeMotion(Motion("Down", ""))
      [] key.code = "Char" /\ key.ch = "k" /\ key.mods = "NONE" -> SomeMotion(Motion("Up", ""))
      [] key.code = "Char" /\ key.ch = "w" /\ key.mods = "NONE" -> SomeMotion(Motion("WordStart", ""))
      [] key.code = "Char" /\ key.ch = "e" /\ key.mods = "NONE" -> SomeMotion(Motion("WordEnd", ""))
      [] key.code = "Char" /\ key.ch = "b" /\ key.mods = "NONE" -> SomeMotion(Motion("WordBackward", ""))
      [] OTHER -> NoneMotion

\* the target-acquisition keys without the two upper-case ones
IsTargetKey_lower_only(key) ==
    key.code = "Char" /\ key.ch \in {"f", "t"} /\ key.mods = "NONE"

\* The four target-acquisition keys, shared by handle_idle and handle_counting:
\* (Char('f'), NONE), (Char('F'), SHIFT), (Char('t'), NONE), (Char('T'), SHIFT)
IsTargetKey(key) ==
    /\ key.code = "Char"
    /\ \/ key.ch \in {"f", "t"} /\ key.mods = "NONE"
       \/ key.ch \in {"F", "T"} /\ key.mods = "SHIFT"

\* handle_idle whose default arm returns the motion without recording it
handle_idle_unrecorded(st, mh, key) ==
    CASE key.code = "Char" /\ IsDigit19(key.ch) /\ key.mods = "NONE" ->
            Result(Counting(ToDigit(key.ch)), mh, Pending)
      [] IsTargetKey(key) ->
            Result(AwaitingTarget(key.ch, None), mh, Pending)
      [] key.code = "Char" /\ key.ch = ";" /\ key.mods = "NONE" ->
            IF ~BoundedQueueIsEmpty(mh) /\ is_find_till(BoundedQueueLast(mh))
            THEN Result(st, mh, single_motion(BoundedQueueLast(mh)))
            ELSE Result(st, mh, Noop)
      [] key.code = "Char" /\ key.ch = "," /\ key.mods = "NONE" ->
            IF ~BoundedQueueIsEmpty(mh) /\ reverse_find_till(BoundedQueueLast(mh)).some
            THEN Result(st, mh, single_motion(reverse_find_till(BoundedQueueLast(mh)).m))
            ELSE Result(st, mh, Noop)
      [] key.code = "Char" /\ key.ch = ":" /\ key.mods = "NONE" ->
            Result(AwaitingCombo(":", None), mh, Pending)
      [] OTHER ->
            IF map_key_to_motion(key).some
            THEN Result(st, mh, single_motion(map_key_to_motion(key).m))
            ELSE Result(st, mh, Noop)

\* InputManager::handle_idle
\* handle_idle recording the motion that ';' or ',' repeats
handle_idle_repeat_recorded(st, mh, key) ==
    CASE key.code = "Char" /\ IsDigit19(key.ch) /\ key.mods = "NONE" ->
            Result(Counting(ToDigit(key.ch)), mh, Pending)
      [] IsTargetKey(key) ->
            Result(AwaitingTarget(key.ch, None), mh, Pending)
      [] key.code = "Char" /\ key.ch = ";" /\ key.mods = "NONE" ->
            IF ~BoundedQueueIsEmpty(mh) /\ is_find_till(BoundedQueueLast(mh))
            THEN Result(st, BoundedQueuePush(mh, BoundedQueueLast(mh)),
                        single_motion(BoundedQueueLast(mh)))
            ELSE Result(st, mh, Noop)
      [] key.code = "Char" /\ key.ch = "," /\ key.mods = "NONE" ->
            IF ~BoundedQueueIsEmpty(mh) /\ reverse_find_till(BoundedQueueLast(mh)).some
            THEN Result(st, BoundedQueuePush(mh, reverse_find_till(BoundedQueueLast(mh)).m),
                        single_motion(reverse_find_till(BoundedQueueLast(mh)).m))
            ELSE Result(st, mh, Noop)
      [] key.code = "Char" /\ key.ch = ":" /\ key.mods = "NONE" ->
            Result(AwaitingCombo(":", None), mh, Pending)
      [] OTHER ->
            IF map_key_to_motion(key).some
            THEN Result(st, BoundedQueuePush(mh, map_key_to_motion(key).m),
                        single_motion(map_key_to_motion(key).m))
            ELSE Result(st, mh, Noop)

handle_idle(st, mh, key) ==
    CASE key.code = "Char" /\ IsDigit19(key.ch) /\ key.mods = "NONE" ->
            Result(Counting(ToDigit(key.ch)), mh, Pending)
      [] IsTargetKey(key) ->
            Result(AwaitingTarget(key.ch, None), mh, Pending)
      [] key.code = "Char" /\ key.ch = ";" /\ key.mods = "NONE" ->
            IF ~BoundedQueueIsEmpty(mh) /\ is_find_till(BoundedQueueLast(mh))
            THEN Result(st, mh, single_motion(BoundedQueueLast(mh)))
            ELSE Result(st, mh, Noop)
      [] key.code = "Char" /\ key.ch = "," /\ key.mods = "NONE" ->
            IF ~BoundedQueueIsEmpty(mh) /\ reverse_find_till(BoundedQueueLast(mh)).some
            THEN Result(st, mh, single_motion(reverse_find_till(BoundedQueueLast(mh)).m))
            ELSE Result(st, mh, Noop)
      [] key.code = "Char" /\ key.ch = ":" /\ key.mods = "NONE" ->
            Result(AwaitingCombo(":", None), mh, Pending)
      [] OTHER ->
            IF map_key_to_motion(key).some
            THEN Result(st, BoundedQueuePush(mh, map_key_to_motion(key).m),
                        single_motion(map_key_to_motion(key).m))
            ELSE Result(st, mh, Noop)

\* handle_counting adding the new digit without shifting the count
handle_counting_unshifted(current, mh, key) ==
    CASE key.code = "Char" /\ IsDigit09(key.ch) /\ key.mods = "NONE" ->
            Result(Counting(current + ToDigit(key.ch)), mh, Pending)
      [] IsTargetKey(key) ->
            Result(AwaitingTarget(key.ch, Some(current)), mh, Pending)
      [] OTHER ->
            IF map_key_to_motion(key).some
            THEN Result(Idle, BoundedQueuePush(mh, map_key_to_motion(key).m),
                        repeated_motion(map_key_to_motion(key).m, current))
            ELSE Result(Idle, mh, Noop)

\* InputManager::handle_counting
handle_counting(current, mh, key) ==
    CASE key.code = "Char" /\ IsDigit09(key.ch) /\ key.mods = "NONE" ->
            Result(Counting(current * 10 + ToDigit(key.ch)), mh, Pending)
      [] IsTargetKey(key) ->
            Result(AwaitingTarget(key.ch, Some(current)), mh, Pending)
      [] OTHER ->
            IF map_key_to_motion(key).some
            THEN Result(Idle, BoundedQueuePush(mh, map_key_to_motion(key).m),
                        repeated_motion(map_key_to_motion(key).m, current))
            ELSE Result(Idle, mh, Noop)

\* the inner match with the two till arms exchanged
TargetMotion_swapped(letter, c) ==
    CASE letter = "f" -> Motion("FindNextChar", c)
      [] letter = "F" -> Motion("FindPrevChar", c)
      [] letter = "t" -> Motion("TillPrevChar", c)
      [] letter = "T" -> Motion("TillNextChar", c)

\* the inner match of handle_target: the letter held by AwaitingTarget
TargetMotion(letter, c) ==
    CASE letter = "f" -> Motion("FindNextChar", c)
      [] letter = "F" -> Motion("FindPrevChar", c)
      [] letter = "t" -> Motion("TillNextChar", c)
      [] letter = "T" -> Motion("TillPrevChar", c)

\* handle_target whose Char arm forgets to leave AwaitingTarget
handle_target_stays(st, mh, key) ==
    IF key.code = "Char"
    THEN Result(st, BoundedQueuePush(mh, TargetMotion(st.letter, key.ch)),
                IF st.count.some
                THEN repeated_motion(TargetMotion(st.letter, key.ch), st.count.val)
                ELSE single_motion(TargetMotion(st.letter, key.ch)))
    ELSE Result(st, mh, Noop)

\* InputManager::handle_target.  The match is on key.code alone: a Char key
\* with any modifier is a target; any other key returns Noop and assigns
\* nothing, so the state stays what it was.
handle_target(st, mh, key) ==
    IF key.code = "Char"
    THEN Result(Idle, BoundedQueuePush(mh, TargetMotion(st.letter, key.ch)),
                IF st.count.some
                THEN repeated_motion(TargetMotion(st.letter, key.ch), st.count.val)
                ELSE single_motion(TargetMotion(st.letter, key.ch)))
    ELSE Result(st, mh, Noop)

\* handle_combo whose 'n' arm forgets to leave AwaitingCombo
handle_combo_n_stays(st, mh, key) ==
    CASE st.letter = ":" /\ key.code = "Char" /\ key.ch = "q" /\ key.mods = "NONE" ->
            Result(Idle, mh, Quit)
      [] st.letter = ":" /\ key.code = "Char" /\ key.ch = "n" /\ key.mods = "NONE" ->
            Result(st, mh, NewGame)
      [] OTHER ->
            Result(Idle, mh, Noop)

\* handle_combo matching 'q' and 'n' whatever the modifiers
handle_combo_any_mods(st, mh, key) ==
    CASE st.letter = ":" /\ key.code = "Char" /\ key.ch = "q" -> Result(Idle, mh, Quit)
      [] st.letter = ":" /\ key.code = "Char" /\ key.ch = "n" -> Result(Idle, mh, NewGame)
      [] OTHER -> Result(Idle, mh, Noop)

\* InputManager::handle_combo
handle_combo(st, mh, key) ==
    CASE st.letter = ":" /\ key.code = "Char" /\ key.ch = "q" /\ key.mods = "NONE" ->
            Result(Idle, mh, Quit)
      [] st.letter = ":" /\ key.code = "Char" /\ key.ch = "n" /\ key.mods = "NONE" ->
            Result(Idle, mh, NewGame)
      [] OTHER ->
            Result(Idle, mh, Noop)

\* the match of InputManager::handle_key on self.state
Dispatch(st, mh, key) ==
    CASE st.tag = "Idle" -> handle_idle(st, mh, key)
      [] st.tag = "Counting" -> handle_counting(st.n, mh, key)
      [] st.tag = "AwaitingTarget" -> handle_target(st, mh, key)
      [] st.tag = "AwaitingCombo" -> handle_combo(st, mh, key)

(***************************************************************************)
(* State.                                                                  *)
(*   state, event_history, motion_history   the fields of InputManager     *)
(*   last    the most recent call: its operation, its key, the UserAction  *)
(*           it returned and the InputManager fields before the call       *)
(*   typed   the keys of the current command: those handled since the last *)
(*           call that found the machine Idle, that call's key included    *)
(*   keys    every key handled since construction or the last reset        *)
(*   ncalls  number of calls made besides the warm-up script               *)
(***************************************************************************)
(***************************************************************************)
(* Buffer, Position and Direction.  A buffer is a sequence of lines, a     *)
(* line a sequence of characters, a character a one-character string; the  *)
(* character written "U+00E9" is a letter whose UTF-8 encoding takes two   *)
(* bytes.  Rows and columns count from 0 as in the source.                 *)
(***************************************************************************)
\* the characters of more than one byte that the buffers use
WideChars == {"U+00E9"}

\* char::len_utf8
len_utf8(c) == IF c \in WideChars THEN 2 ELSE 1

\* String::len, the length of a line in bytes
RECURSIVE StringLen(_)
StringLen(line) ==
    IF line = <<>> THEN 0 ELSE len_utf8(Head(line)) + StringLen(Tail(line))

\* char::is_whitespace
is_whitespace(c) == c \in {" ", "\t"}

\* char::is_alphanumeric, on the characters the buffers use
is_alphanumeric(c) == c \in {"a", "b", "c", "f", "i", "m", "n", "x", "1", "U+00E9"}

\* usize::saturating_sub
saturating_sub(a, b) == IF a > b THEN a - b ELSE 0

\* usize::min
min(a, b) == IF a < b THEN a ELSE b

\* enum Direction
Forward == "Forward"
Backward == "Backward"

\* opposite that returns the direction it is given
opposite_same(direction) == direction

\* Direction::opposite
opposite(direction) == IF direction = Forward THEN Backward ELSE Forward

\* struct Position
Position(row, col) == [row |-> row, col |-> col]

\* Buffer::rows
rows(buffer) == Len(buffer)

\* Buffer::get_line: Some(line) for a row of the buffer, None otherwise
get_line(buffer, row) ==
    IF row < Len(buffer) THEN [some |-> TRUE, line |-> buffer[row + 1]]
    ELSE [some |-> FALSE, line |-> <<>>]

\* Buffer::get_line_len
get_line_len(buffer, row) ==
    IF get_line(buffer, row).some THEN StringLen(get_line(buffer, row).line) ELSE 0

\* Buffer::get_char: line.chars().nth(col)
get_char(buffer, pos) ==
    IF get_line(buffer, pos.row).some /\ pos.col < Len(get_line(buffer, pos.row).line)
    THEN [some |-> TRUE, c |-> get_line(buffer, pos.row).line[pos.col + 1]]
    ELSE [some |-> FALSE, c |-> ""]

\* is_space that takes a position without a character for a space
is_space_or_nothing(buffer, pos) ==
    IF get_char(buffer, pos).some THEN is_whitespace(get_char(buffer, pos).c) ELSE TRUE

\* Buffer::is_space
is_space(buffer, pos) ==
    IF get_char(buffer, pos).some THEN is_whitespace(get_char(buffer, pos).c) ELSE FALSE

\* Buffer::is_empty
is_empty(buffer) == Len(buffer) = 0

\* Buffer::is_empty_line
is_empty_line(buffer, pos) ==
    IF get_line(buffer, pos.row).some THEN get_line(buffer, pos.row).line = <<>> ELSE FALSE

\* What a &mut self method of Position leaves: its return value and *self.
Stepped(ok, pos) == [ok |-> ok, pos |-> pos]

\* step_char that never leaves its row
step_char_no_wrap(buffer, self, direction) ==
    IF get_line(buffer, self.row).some
    THEN IF direction = Forward
         THEN IF self.col + 1 < StringLen(get_line(buffer, self.row).line)
              THEN Stepped(TRUE, Position(self.row, self.col + 1))
              ELSE Stepped(FALSE, self)
         ELSE IF self.col > 0
              THEN Stepped(TRUE, Position(self.row, self.col - 1))
              ELSE Stepped(FALSE, self)
    ELSE Stepped(FALSE, self)

\* Position::step_char
step_char(buffer, self, direction) ==
    IF get_line(buffer, self.row).some
    THEN IF direction = Forward
         THEN IF self.col + 1 < StringLen(get_line(buffer, self.row).line)
              THEN Stepped(TRUE, Position(self.row, self.col + 1))
              ELSE IF self.row + 1 < rows(buffer)
                   THEN Stepped(TRUE, Position(self.row + 1, 0))
                   ELSE Stepped(FALSE, self)
         ELSE IF self.col > 0
              THEN Stepped(TRUE, Position(self.row, self.col - 1))
              ELSE IF self.row > 0
                   THEN Stepped(TRUE,
                          Position(self.row - 1,
                                   IF get_line(buffer, self.row - 1).some
                                   THEN saturating_sub(
                                          StringLen(get_line(buffer, self.row - 1).line), 1)
                                   ELSE 0))
                   ELSE Stepped(FALSE, self)
    ELSE Stepped(FALSE, self)

\* the while loop of step_char_skip_spaces, entered at pos
RECURSIVE SkipSpacesLoop(_, _, _)
SkipSpacesLoop(buffer, pos, direction) ==
    IF is_space(buffer, pos)
    THEN LET s == step_char(buffer, pos, direction)
         IN IF ~s.ok THEN Stepped(FALSE, s.pos)
            ELSE SkipSpacesLoop(buffer, s.pos, direction)
    ELSE Stepped(TRUE, pos)

\* Position::step_char_skip_spaces
step_char_skip_spaces(buffer, self, direction) ==
    LET s == step_char(buffer, self, direction)
    IN IF ~s.ok THEN Stepped(FALSE, s.pos)
       ELSE SkipSpacesLoop(buffer, s.pos, direction)

\* step_line that keeps the column it had
step_line_no_clamp(buffer, self, direction) ==
    IF direction = Forward
    THEN IF self.row + 1 < rows(buffer)
         THEN Stepped(TRUE, Position(self.row + 1, self.col))
         ELSE Stepped(FALSE, self)
    ELSE IF self.row > 0
         THEN Stepped(TRUE, Position(self.row - 1, self.col))
         ELSE Stepped(FALSE, self)

\* Position::step_line
step_line(buffer, self, direction) ==
    IF direction = Forward
    THEN IF self.row + 1 < rows(buffer)
         THEN Stepped(TRUE,
                Position(self.row + 1,
                         min(self.col, saturating_sub(get_line_len(buffer, self.row + 1), 1))))
         ELSE Stepped(FALSE, self)
    ELSE IF self.row > 0
         THEN Stepped(TRUE,
                Position(self.row - 1,
                         min(self.col, saturating_sub(get_line_len(buffer, self.row - 1), 1))))
         ELSE Stepped(FALSE, self)

\* Option<Position>
NonePos == [some |-> FALSE, pos |-> Position(0, 0)]
SomePos(pos) == [some |-> TRUE, pos |-> pos]

\* the loop of find_char, with the position it has reached
RECURSIVE FindLoop(_, _, _, _)
FindLoop(buffer, pos, target, direction) ==
    LET s == step_char(buffer, pos, direction)
    IN IF ~s.ok THEN NonePos
       ELSE IF get_char(buffer, s.pos).some /\ get_char(buffer, s.pos).c = target
            THEN SomePos(s.pos)
            ELSE FindLoop(buffer, s.pos, target, direction)

\* find_char that tests the position it starts from as well
find_char_from_self(buffer, self, target, direction) ==
    IF get_char(buffer, self).some /\ get_char(buffer, self).c = target
    THEN SomePos(self)
    ELSE FindLoop(buffer, self, target, direction)

\* Position::find_char
find_char(buffer, self, target, direction) == FindLoop(buffer, self, target, direction)

\* Position::jump_to_char
jump_to_char(buffer, self, target, direction) ==
    LET found == find_char(buffer, self, target, direction)
    IN IF found.some THEN Stepped(TRUE, found.pos) ELSE Stepped(FALSE, self)

\* jump_before_char that moves to the character found before it steps back
jump_before_char_commits_early(buffer, self, target, direction) ==
    LET found == find_char(buffer, self, target, direction)
        back == step_char(buffer, found.pos, opposite(direction))
    IN IF found.some
       THEN IF ~back.ok THEN Stepped(FALSE, found.pos) ELSE Stepped(TRUE, back.pos)
       ELSE Stepped(FALSE, self)

\* jump_before_char that stops on the character found
jump_before_char_no_back(buffer, self, target, direction) ==
    LET found == find_char(buffer, self, target, direction)
    IN IF found.some THEN Stepped(TRUE, found.pos) ELSE Stepped(FALSE, self)

\* Position::jump_before_char
jump_before_char(buffer, self, target, direction) ==
    LET found == find_char(buffer, self, target, direction)
        back == step_char(buffer, found.pos, opposite(direction))
    IN IF found.some
       THEN IF ~back.ok THEN Stepped(FALSE, self) ELSE Stepped(TRUE, back.pos)
       ELSE Stepped(FALSE, self)

(***************************************************************************)
(* The motions.  Each repeats its one-step version count times and breaks  *)
(* out of the loop at the first step that returns false; the position is   *)
(* the one the steps made so far have left.                                *)
(***************************************************************************)
\* h_motion that makes one step whatever the count
h_motion_single(buffer, position, count) ==
    IF count = 0 THEN position ELSE step_char(buffer, position, Backward).pos

\* h_motion: move_one_char Backward, count times
RECURSIVE h_motion(_, _, _)
h_motion(buffer, position, count) ==
    IF count = 0 THEN position
    ELSE LET s == step_char(buffer, position, Backward)
         IN IF ~s.ok THEN s.pos ELSE h_motion(buffer, s.pos, count - 1)

\* j_motion: move_one_line Forward, count times
RECURSIVE j_motion(_, _, _)
j_motion(buffer, position, count) ==
    IF count = 0 THEN position
    ELSE LET s == step_line(buffer, position, Forward)
         IN IF ~s.ok THEN s.pos ELSE j_motion(buffer, s.pos, count - 1)

\* k_motion: move_one_line Backward, count times
RECURSIVE k_motion(_, _, _)
k_motion(buffer, position, count) ==
    IF count = 0 THEN position
    ELSE LET s == step_line(buffer, position, Backward)
         IN IF ~s.ok THEN s.pos ELSE k_motion(buffer, s.pos, count - 1)

\* l_motion: move_one_char Forward, count times
RECURSIVE l_motion(_, _, _)
l_motion(buffer, position, count) ==
    IF count = 0 THEN position
    ELSE LET s == step_char(buffer, position, Forward)
         IN IF ~s.ok THEN s.pos ELSE l_motion(buffer, s.pos, count - 1)

\* f_motion: jump_to_char Forward, count times
RECURSIVE f_motion(_, _, _, _)
f_motion(tar, buffer, position, count) ==
    IF count = 0 THEN position
    ELSE LET s == jump_to_char(buffer, position, tar, Forward)
         IN IF ~s.ok THEN s.pos ELSE f_motion(tar, buffer, s.pos, count - 1)

\* big_f_motion: jump_to_char Backward, count times
RECURSIVE big_f_motion(_, _, _, _)
big_f_motion(tar, buffer, position, count) ==
    IF count = 0 THEN position
    ELSE LET s == jump_to_char(buffer, position, tar, Backward)
         IN IF ~s.ok THEN s.pos ELSE big_f_motion(tar, buffer, s.pos, count - 1)

\* t_motion jumping onto the target as f_motion does
t_motion_as_find(tar, buffer, position, count) == f_motion(tar, buffer, position, count)

\* t_motion: jump_before_char Forward, count times
RECURSIVE t_motion(_, _, _, _)
t_motion(tar, buffer, position, count) ==
    IF count = 0 THEN position
    ELSE LET s == jump_before_char(buffer, position, tar, Forward)
         IN IF ~s.ok THEN s.pos ELSE t_motion(tar, buffer, s.pos, count - 1)

\* big_t_motion: jump_before_char Backward, count times
RECURSIVE big_t_motion(_, _, _, _)
big_t_motion(tar, buffer, position, count) ==
    IF count = 0 THEN position
    ELSE LET s == jump_before_char(buffer, position, tar, Backward)
         IN IF ~s.ok THEN s.pos ELSE big_t_motion(tar, buffer, s.pos, count - 1)

\* is_word_char without the underscore
is_word_char_alphanumeric(c) == is_alphanumeric(c)

\* is_word_char: alphanumeric or underscore
is_word_char(c) == is_alphanumeric(c) \/ c = "_"

\* the class test of the two pairs of loops of word_boundaries
InRun(is_word, c) ==
    IF is_word THEN is_word_char(c) ELSE ~is_whitespace(c) /\ ~is_word_char(c)

\* a start loop that goes back over one character at most
WordStartLoop_once(chars, start, is_word) ==
    IF start > 0 /\ InRun(is_word, chars[start]) THEN start - 1 ELSE start

\* the "find start of word" loop of word_boundaries; chars[start] is the
\* character at column start - 1
RECURSIVE WordStartLoop(_, _, _)
WordStartLoop(chars, start, is_word) ==
    IF start > 0 /\ InRun(is_word, chars[start])
    THEN WordStartLoop(chars, start - 1, is_word)
    ELSE start

\* the "find end of word" loop of word_boundaries; chars[end + 2] is the
\* character at column end + 1
RECURSIVE WordEndLoop(_, _, _)
WordEndLoop(chars, end, is_word) ==
    IF end + 1 < Len(chars) /\ InRun(is_word, chars[end + 2])
    THEN WordEndLoop(chars, end + 1, is_word)
    ELSE end

\* Option<(usize, usize)>
NoneBounds == [some |-> FALSE, start |-> 0, end |-> 0]
SomeBounds(start, end) == [some |-> TRUE, start |-> start, end |-> end]

\* word_boundaries, on the characters of the line
word_boundaries(line, col) ==
    IF Len(line) = 0 \/ col >= Len(line) THEN NoneBounds
    ELSE IF is_whitespace(line[col + 1]) THEN NoneBounds
    ELSE SomeBounds(WordStartLoop(line, col, is_word_char(line[col + 1])),
                    WordEndLoop(line, col, is_word_char(line[col + 1])))

\* w_motion_once that does not go to the end of the run first
w_motion_once_from_cursor(buffer, position) ==
    LET line == get_line(buffer, position.row)
    IN IF ~line.some THEN Stepped(FALSE, position)
       ELSE step_char_skip_spaces(buffer, position, Forward)

\* w_motion_once
w_motion_once(buffer, position) ==
    LET line == get_line(buffer, position.row)
        bounds == word_boundaries(line.line, position.col)
    IN IF ~line.some THEN Stepped(FALSE, position)
       ELSE IF bounds.some
            THEN step_char_skip_spaces(buffer, Position(position.row, bounds.end), Forward)
            ELSE step_char_skip_spaces(buffer, position, Forward)

\* w_motion
RECURSIVE w_motion(_, _, _)
w_motion(buffer, position, count) ==
    IF count = 0 THEN position
    ELSE LET s == w_motion_once(buffer, position)
         IN IF ~s.ok THEN s.pos ELSE w_motion(buffer, s.pos, count - 1)

\* that arm without the move to the start of the run found
BackFromRunStart_no_snap(buffer, stepped) ==
    LET line == get_line(buffer, stepped.pos.row)
    IN IF ~stepped.ok THEN Stepped(FALSE, stepped.pos)
       ELSE IF ~line.some THEN Stepped(FALSE, stepped.pos)
       ELSE Stepped(TRUE, stepped.pos)

\* the arm of b_motion_once taken on the first character of a run, with the
\* result of its step_char_skip_spaces
BackFromRunStart(buffer, stepped) ==
    LET line == get_line(buffer, stepped.pos.row)
        bounds == word_boundaries(line.line, stepped.pos.col)
    IN IF ~stepped.ok THEN Stepped(FALSE, stepped.pos)
       ELSE IF ~line.some THEN Stepped(FALSE, stepped.pos)
       ELSE IF bounds.some THEN Stepped(TRUE, Position(stepped.pos.row, bounds.start))
       ELSE Stepped(TRUE, stepped.pos)

\* b_motion_once
b_motion_once(buffer, position) ==
    LET line == get_line(buffer, position.row)
        bounds == word_boundaries(line.line, position.col)
    IN IF ~line.some THEN Stepped(FALSE, position)
       ELSE IF bounds.some
            THEN IF position.col = bounds.start
                 THEN BackFromRunStart(buffer,
                                       step_char_skip_spaces(buffer, position, Backward))
                 ELSE Stepped(TRUE, Position(position.row, bounds.start))
            ELSE step_char(buffer, position, Backward)

\* b_motion
RECURSIVE b_motion(_, _, _)
b_motion(buffer, position, count) ==
    IF count = 0 THEN position
    ELSE LET s == b_motion_once(buffer, position)
         IN IF ~s.ok THEN s.pos ELSE b_motion(buffer, s.pos, count - 1)

\* e_motion_once: the loop, entered at position
\* e_motion_once that looks for the run at the position it starts from
e_motion_once_in_place(buffer, position) ==
    LET line == get_line(buffer, position.row)
        bounds == word_boundaries(line.line, position.col)
    IN IF ~line.some THEN Stepped(FALSE, position)
       ELSE IF bounds.some THEN Stepped(TRUE, Position(position.row, bounds.end))
       ELSE Stepped(FALSE, position)

RECURSIVE e_motion_once(_, _)
e_motion_once(buffer, position) ==
    LET s == step_char(buffer, position, Forward)
        line == get_line(buffer, s.pos.row)
        bounds == word_boundaries(line.line, s.pos.col)
    IN IF ~s.ok THEN Stepped(FALSE, s.pos)
       ELSE IF ~line.some THEN Stepped(FALSE, s.pos)
       ELSE IF bounds.some THEN Stepped(TRUE, Position(s.pos.row, bounds.end))
       ELSE e_motion_once(buffer, s.pos)

\* e_motion
RECURSIVE e_motion(_, _, _)
e_motion(buffer, position, count) ==
    IF count = 0 THEN position
    ELSE LET s == e_motion_once(buffer, position)
         IN IF ~s.ok THEN s.pos ELSE e_motion(buffer, s.pos, count - 1)

\* Motion::is_vertical
is_vertical(motion) == motion.kind \in {"Up", "Down"}

\* Motion::apply
apply(motion, buffer, position, count) ==
    CASE motion.kind = "Left" -> h_motion(buffer, position, count)
      [] motion.kind = "Down" -> k_motion(buffer, position, count)
      [] motion.kind = "Up" -> j_motion(buffer, position, count)
      [] motion.kind = "Right" -> l_motion(buffer, position, count)
      [] motion.kind = "WordStart" -> w_motion(buffer, position, count)
      [] motion.kind = "WordEnd" -> e_motion(buffer, position, count)
      [] motion.kind = "WordBackward" -> b_motion(buffer, position, count)
      [] motion.kind = "FindNextChar" -> f_motion(motion.ch, buffer, position, count)
      [] motion.kind = "FindPrevChar" -> big_f_motion(motion.ch, buffer, position, count)
      [] motion.kind = "TillNextChar" -> t_motion(motion.ch, buffer, position, count)
      [] motion.kind = "TillPrevChar" -> big_t_motion(motion.ch, buffer, position, count)

\* struct Cursor: the position and the target column of its memory.  The
\* timestamped position trail of the memory is not part of the value.
Cursor(position, target_col) == [position |-> position, target_col |-> target_col]

\* impl Default for Cursor
CursorDefault == Cursor(Position(0, 0), None)

\* apply_motion without the target column: a vertical motion keeps the
\* column of the line step
apply_motion_no_memory(self, buffer, motion, count) ==
    LET n == IF count.some THEN count.val ELSE 1
        position == apply(motion, buffer, self.position, n)
    IN IF is_vertical(motion)
       THEN Cursor(position, self.target_col)
       ELSE Cursor(position, Some(position.col))

\* Cursor::apply_motion, with count an Option<usize>
apply_motion(self, buffer, motion, count) ==
    LET n == IF count.some THEN count.val ELSE 1
        position == apply(motion, buffer, self.position, n)
    IN IF is_vertical(motion)
       THEN Cursor(Position(position.row,
                            IF self.target_col.some
                            THEN min(self.target_col.val, get_line_len(buffer, position.row))
                            ELSE position.col),
                   self.target_col)
       ELSE Cursor(position, Some(position.col))

VARIABLES state, event_history, motion_history, last, typed, keys, ncalls,
          buffer, pos, cursor, applied,
          viewport, enemies, picking

\* The record kept in applied: the method called last, its arguments, the
\* cursor value it was called on and what it returned: the bool of a &mut
\* self method in ok, the value of a &self method in result.
Applied(op, direction, motion, count, pre, ok) ==
    [op |-> op, direction |-> direction, motion |-> motion, count |-> count,
     pre |-> pre, ok |-> ok, result |-> None]

NoApplied == Applied("new", Forward, NoMotion, None, CursorDefault, TRUE)

inputVars == <<state, event_history, motion_history, last, typed, keys, ncalls>>
editorVars == <<buffer, pos, cursor, applied>>
gameVars == <<viewport, enemies, picking>>
vars == <<inputVars, editorVars, gameVars>>

(***************************************************************************)
(* Viewport (src/src/tui/viewport.rs)                                      *)
(***************************************************************************)
Viewport(start, padding) == [visible_line_start |-> start, scroll_padding |-> padding]

top_threshold(self) == self.visible_line_start + self.scroll_padding

bottom_threshold(self, visible_height) ==
    self.visible_line_start + saturating_sub(visible_height, self.scroll_padding + 1)

\* Viewport::adjust_for_cursor with the cursor at position at: the viewport
\* after the call
adjust_for_cursor(self, at, buffer_lines, visible_height) ==
    IF visible_height = 0 THEN self
    ELSE LET up == IF at.row < top_threshold(self)
                   THEN [self EXCEPT !.visible_line_start =
                                         saturating_sub(at.row, self.scroll_padding)]
                   ELSE self
             down == IF at.row > bottom_threshold(up, visible_height)
                     THEN [up EXCEPT !.visible_line_start =
                                         at.row + up.scroll_padding + 1 - visible_height]
                     ELSE up
             remaining_lines == saturating_sub(buffer_lines, visible_height)
         IN [down EXCEPT !.visible_line_start = min(down.visible_line_start, remaining_lines)]

(***************************************************************************)
(* Buffer::random_position and random_position_from: the positions one     *)
(* iteration of the loop can return.  The loop draws again while the set   *)
(* is not hit.                                                             *)
(***************************************************************************)
RandomPositions(b, allow_space) ==
    UNION {{p \in {Position(row, col) : col \in 0..get_line_len(b, row)} :
               /\ get_line_len(b, row) # 0
               /\ allow_space \/ ~is_space(b, p)} : row \in 0..(rows(b) - 1)}

RandomPositionsFrom(b, start, radius, allow_space) ==
    LET start_row == saturating_sub(start.row, radius)
        end_row == min(start.row + radius, rows(b) - 1)
        start_col == saturating_sub(start.col, radius)
        end_col == start.col + radius
    IN UNION {{p \in {Position(row, col) :
                         col \in min(start_col, get_line_len(b, row))
                                 ..min(end_col, get_line_len(b, row))} :
                  /\ get_line_len(b, row) # 0
                  /\ allow_space \/ ~is_space(b, p)} : row \in start_row..end_row}

(***************************************************************************)
(* Enemies (src/src/domain/enemies): the active map and the pool, each a   *)
(* HashMap from enemy id to the enemy, an enemy being its position.        *)
(***************************************************************************)
MapRemove(m, k) == [x \in DOMAIN m \ {k} |-> m[x]]
MapInsert(m, k, v) == [x \in DOMAIN m \cup {k} |-> IF x = k THEN v ELSE m[x]]

\* EnemyPool::new
EnemyPoolNew(pool_size) == [idx \in 0..(pool_size - 1) |-> Position(0, 0)]

\* Enemies::new
EnemiesNew(pool_size) ==
    [active |-> [idx \in {} |-> Position(0, 0)], enemy_pool |-> EnemyPoolNew(pool_size)]

\* destroy that drops the enemy instead of returning it to the pool
destroy_drops(self, id) ==
    IF id \in DOMAIN self.active
    THEN [self EXCEPT !.active = MapRemove(self.active, id)]
    ELSE self

\* Enemies::destroy
destroy(self, id) ==
    IF id \in DOMAIN self.active
    THEN [active |-> MapRemove(self.active, id),
          enemy_pool |-> MapInsert(self.enemy_pool, id, self.active[id])]
    ELSE self

\* the spawn of Enemies::tick, when should_spawn answers true: take_enemy
\* gave enemy id and random_position gave start_pos
spawn(self, id, start_pos) ==
    [active |-> MapInsert(self.active, id, start_pos),
     enemy_pool |-> MapRemove(self.enemy_pool, id)]

\* the positions Enemy::tick can leave an enemy on: where it is (no move is
\* due, or random_position_from gave None) or where move_random puts it
Moves(b, position) ==
    {position} \cup (IF is_empty(b) THEN {}
                     ELSE RandomPositionsFrom(b, position, MOVE_RADIUS, FALSE))

\* the call of random_position not made, or in its loop, or returned, with
\* the loop's row and col; rng is the state of the thread's generator, which
\* every draw advances, kept as the parity of the iterations made
NoPick ==
    [op |-> "-", allow_space |-> FALSE, row |-> 0, col |-> 0, rng |-> 0, result |-> NonePos]

\* the game side as constructed
FreshGame ==
    /\ viewport = Viewport(0, VIEWPORT_PADDING)
    /\ enemies = EnemiesNew(PoolSize)
    /\ picking = NoPick

\* The keys the environment sends.
Keys ==
    {Char("0"), Char("1"), Char("3"),
     Char("h"), Char("l"), Char("j"), Char("k"), Char("w"), Char("e"), Char("b"),
     Char("f"), ShiftChar("F"), Char("t"), ShiftChar("T"),
     Char(";"), Char(","), Char(":"), Char("q"), Char("n"), Char("x"),
     Char("F"), EscKey, CtrlChar("q"), CtrlChar("h")}

\* The InputManager fields as one value.
Manager(st, eh, mh) == [state |-> st, event_history |-> eh, motion_history |-> mh]

\* impl Default for InputManager
ManagerDefault ==
    Manager(Idle, BoundedQueueNew(EVENT_HISTORY_LEN), BoundedQueueNew(MOTION_HISTORY_LEN))

\* InputManager::handle_key on a manager value: the manager afterwards and
\* the action returned.
handle_key(im, key) ==
    LET r == Dispatch(im.state, im.motion_history, key)
    IN [im |-> Manager(r.state, BoundedQueuePush(im.event_history, key), r.motion_history),
        action |-> r.action]

\* reset that leaves the motion history as it is
reset_keeps_motions(im) ==
    Manager(Idle, BoundedQueueClear(im.event_history), im.motion_history)

\* InputManager::reset on a manager value
reset(im) ==
    Manager(Idle, BoundedQueueClear(im.event_history), BoundedQueueClear(im.motion_history))

\* InputManager::keys_iter, as the sequence the iterator yields
keys_iter == BoundedQueueReverseIter(event_history)

Current == Manager(state, event_history, motion_history)

\* The record kept in last.
Call(op, key, action, pre) == [op |-> op, key |-> key, action |-> action, pre |-> pre]

\* The manager with its observers after one more handle_key call.
Observed(im, l, t, ks) == [im |-> im, last |-> l, typed |-> t, keys |-> ks]

AfterKey(o, key) ==
    LET r == handle_key(o.im, key)
    IN Observed(r.im,
                Call("handle_key", key, r.action, o.im),
                IF o.im.state.tag = "Idle" THEN <<key>> ELSE Append(o.typed, key),
                Append(o.keys, key))

Fresh == Observed(ManagerDefault, Call("new", EscKey, NoAction, ManagerDefault), <<>>, <<>>)

\* The warm-up script: WarmEsc Esc keys followed by WarmLeft 'h' keys, which
\* leaves both histories one short of full.
Repeat(key, n) == [i \in 1..n |-> key]
WarmUpKeys == Repeat(EscKey, WarmEsc) \o Repeat(Char("h"), WarmLeft)

\* The state after construction.
Init ==
    /\ state = Fresh.im.state
    /\ event_history = Fresh.im.event_history
    /\ motion_history = Fresh.im.motion_history
    /\ last = Fresh.last
    /\ typed = Fresh.typed
    /\ keys = Fresh.keys
    /\ ncalls = 0
    /\ buffer = <<>>
    /\ pos = Position(0, 0)
    /\ cursor = CursorDefault
    /\ applied = NoApplied
    /\ FreshGame

\* The effect of handle_key(key) on the variables other than ncalls.
Handled(key) ==
    LET o == AfterKey(Observed(Current, last, typed, keys), key)
    IN /\ state' = o.im.state
       /\ event_history' = o.im.event_history
       /\ motion_history' = o.im.motion_history
       /\ last' = o.last
       /\ typed' = o.typed
       /\ keys' = o.keys

\* handle_key with the next key of the warm-up script.  The script runs
\* uninterrupted from the fresh manager and is not counted in ncalls.
WarmUp ==
    /\ ncalls = 0
    /\ Len(keys) < Len(WarmUpKeys)
    /\ Handled(WarmUpKeys[Len(keys) + 1])
    /\ UNCHANGED <<ncalls, editorVars, gameVars>>

\* handle_key(key) with any key, on the fresh manager or after the warm-up.
HandleKey(key) ==
    /\ ncalls < MaxCalls
    /\ ncalls > 0 \/ keys = <<>> \/ Len(keys) = Len(WarmUpKeys)
    /\ Handled(key)
    /\ ncalls' = ncalls + 1
    /\ UNCHANGED <<editorVars, gameVars>>

\* reset(), on the fresh manager or after the warm-up
Reset ==
    /\ ncalls < MaxCalls
    /\ ncalls > 0 \/ keys = <<>> \/ Len(keys) = Len(WarmUpKeys)
    /\ LET im == reset(Current)
       IN /\ state' = im.state
          /\ event_history' = im.event_history
          /\ motion_history' = im.motion_history
    /\ last' = Call("reset", EscKey, NoAction, Current)
    /\ typed' = <<>>
    /\ keys' = <<>>
    /\ ncalls' = ncalls + 1
    /\ UNCHANGED <<editorVars, gameVars>>

Next ==
    \/ WarmUp
    \/ \E key \in Keys : HandleKey(key)
    \/ Reset

Spec == Init /\ [][Next]_vars

(***************************************************************************)
(* Specifications of the buffer side: Position's methods, Motion::apply    *)
(* and Cursor::apply_motion, each on buffers and positions drawn from      *)
(* bounded sets.  The input manager stays as constructed in all three.     *)
(***************************************************************************)
\* all lines of n characters over chars
RECURSIVE LinesOfLen(_, _)
LinesOfLen(chars, n) ==
    IF n = 0 THEN {<<>>}
    ELSE {<<c>> \o line : c \in chars, line \in LinesOfLen(chars, n - 1)}

\* all buffers of r lines over chars holding at most n characters in all
RECURSIVE BuffersOf(_, _, _)
BuffersOf(chars, r, n) ==
    IF r = 0 THEN {<<>>}
    ELSE UNION {{<<line>> \o rest : line \in LinesOfLen(chars, k),
                                    rest \in BuffersOf(chars, r - 1, n - k)} : k \in 0..n}

\* all buffers of at most maxRows lines and at most maxChars characters
Buffers(chars, maxRows, maxChars) == UNION {BuffersOf(chars, r, maxChars) : r \in 0..maxRows}

\* The positions a call may be given: every column of every row up to one
\* past the bytes of the line, and a row past the last one.
StartPositions(b) ==
    UNION {{Position(r, c) : c \in 0..(get_line_len(b, r) + 1)} : r \in 0..Len(b)}

Directions == {Forward, Backward}

\* the input manager and the game side as constructed
FreshInput ==
    /\ state = Fresh.im.state
    /\ event_history = Fresh.im.event_history
    /\ motion_history = Fresh.im.motion_history
    /\ last = Fresh.last
    /\ typed = Fresh.typed
    /\ keys = Fresh.keys
    /\ ncalls = 0
    /\ FreshGame

\* ----- Position's methods -----
PositionChars == {"a", " ", "U+00E9"}
PositionTargets == {"a", "U+00E9"}

InitPosition ==
    /\ FreshInput
    /\ buffer \in Buffers(PositionChars, PosMaxRows, PosMaxChars)
    /\ pos \in StartPositions(buffer)
    /\ cursor = CursorDefault
    /\ applied = NoApplied

\* A method of Position called on pos: pos becomes *self after the call.
\* Every position is an initial one, so a behaviour makes one call.
Called(op, direction, target, stepped) ==
    /\ applied = NoApplied
    /\ pos' = stepped.pos
    /\ applied' = Applied(op, direction, Motion("-", target), None, Cursor(pos, None),
                          stepped.ok)
    /\ UNCHANGED <<inputVars, gameVars, buffer, cursor>>

StepChar(direction) ==
    Called("step_char", direction, "", step_char(buffer, pos, direction))

StepCharSkipSpaces(direction) ==
    Called("step_char_skip_spaces", direction, "",
           step_char_skip_spaces(buffer, pos, direction))

StepLine(direction) ==
    Called("step_line", direction, "", step_line(buffer, pos, direction))

JumpToChar(target, direction) ==
    Called("jump_to_char", direction, target, jump_to_char(buffer, pos, target, direction))

JumpBeforeChar(target, direction) ==
    Called("jump_before_char", direction, target,
           jump_before_char(buffer, pos, target, direction))

\* e_motion_once(buffer, &mut pos)
EMotionOnce == Called("e_motion_once", Forward, "", e_motion_once(buffer, pos))

\* A &self method of Buffer called with pos: nothing changes.
Asked(op, result) ==
    /\ applied = NoApplied
    /\ applied' = [Applied(op, Forward, NoMotion, None, Cursor(pos, None), TRUE)
                      EXCEPT !.result = result]
    /\ UNCHANGED <<inputVars, gameVars, buffer, pos, cursor>>

GetChar == Asked("get_char", get_char(buffer, pos))

IsSpace == Asked("is_space", is_space(buffer, pos))

IsEmptyLine == Asked("is_empty_line", is_empty_line(buffer, pos))

GetLineLen == Asked("get_line_len", get_line_len(buffer, pos.row))

NextPosition ==
    \/ GetChar
    \/ IsSpace
    \/ IsEmptyLine
    \/ GetLineLen
    \/ \E direction \in Directions : StepChar(direction)
    \/ \E direction \in Directions : StepCharSkipSpaces(direction)
    \/ \E direction \in Directions : StepLine(direction)
    \/ \E target \in PositionTargets, direction \in Directions : JumpToChar(target, direction)
    \/ \E target \in PositionTargets, direction \in Directions :
          JumpBeforeChar(target, direction)
    \/ EMotionOnce

SpecPosition == InitPosition /\ [][NextPosition]_vars

\* ----- Motion::apply -----
MotionChars == {"a", ".", " ", "U+00E9"}

\* the eleven motions, the four character-targeted ones with target 'a'
Motions ==
    {Motion(k, "") : k \in {"Left", "Down", "Up", "Right",
                            "WordStart", "WordEnd", "WordBackward"}}
    \cup {Motion(k, "a") : k \in {"FindNextChar", "FindPrevChar",
                                  "TillNextChar", "TillPrevChar"}}

InitMotion ==
    /\ FreshInput
    /\ buffer \in Buffers(MotionChars, MotMaxRows, MotMaxChars)
    /\ pos \in StartPositions(buffer)
    /\ cursor = CursorDefault
    /\ applied = NoApplied

\* pos = motion.apply(buffer, pos, count), once from every initial position
Apply(motion, count) ==
    /\ applied = NoApplied
    /\ pos' = apply(motion, buffer, pos, count)
    /\ applied' = Applied("apply", Forward, motion, Some(count), Cursor(pos, None), TRUE)
    /\ UNCHANGED <<inputVars, gameVars, buffer, cursor>>

SpecMotion ==
    InitMotion /\ [][\E motion \in Motions, count \in 0..MaxCount : Apply(motion, count)]_vars

\* ----- Cursor::apply_motion -----
CursorChars == {"a", " ", "U+00E9"}

\* the first n columns of a line of three-letter words
RECURSIVE Text(_)
Text(n) ==
    IF n = 0 THEN <<>>
    ELSE Append(Text(n - 1), IF n % 4 = 0 THEN " " ELSE IF n % 4 = 1 THEN "a"
                             ELSE IF n % 4 = 2 THEN "b" ELSE "c")

\* a 10-column line, a 3-column line and a 6-column line
StickyBuffer == <<Text(10), Text(3), Text(6)>>

\* the counts a caller passes: none, or Some(n)
Counts == {None} \cup {Some(n) : n \in 0..MaxCount}

InitCursor ==
    /\ FreshInput
    /\ buffer \in Buffers(CursorChars, CurMaxRows, CurMaxChars) \cup {StickyBuffer}
    /\ pos = Position(0, 0)
    /\ cursor = CursorDefault
    /\ applied = NoApplied

\* cursor.apply_motion(buffer, motion, count).  A behaviour is any number of
\* calls; the last one may be recorded in applied, with the cursor it was
\* called on.
ApplyMotion(motion, count, recorded) ==
    /\ applied = NoApplied
    /\ cursor' = apply_motion(cursor, buffer, motion, count)
    /\ applied' = IF recorded
                  THEN Applied("apply_motion", Forward, motion, count, cursor, TRUE)
                  ELSE NoApplied
    /\ UNCHANGED <<inputVars, gameVars, buffer, pos>>

NextCursor ==
    \E motion \in Motions, count \in Counts, recorded \in BOOLEAN :
        ApplyMotion(motion, count, recorded)

SpecCursor == InitCursor /\ [][NextCursor]_vars

\* ----- word_boundaries -----
WordChars == {"a", "_", ".", " ", "U+00E9"}

\* one line and a column of it, up to two past its characters
InitWords ==
    /\ FreshInput
    /\ buffer \in BuffersOf(WordChars, 1, WordMaxChars)
    /\ pos \in {Position(0, c) : c \in 0..(Len(buffer[1]) + 1)}
    /\ cursor = CursorDefault
    /\ applied = NoApplied

\* word_boundaries(line, col) with the line of the buffer and the column of pos
WordBoundaries ==
    /\ get_line(buffer, pos.row).some
    /\ Asked("word_boundaries", word_boundaries(get_line(buffer, pos.row).line, pos.col))

SpecWords == InitWords /\ [][WordBoundaries]_vars

\* ----- runs of repeat keys -----
\* handle_key(key) on the fresh manager, MaxRepeat calls in a row, with the
\* keys of a find and of its repeats
Repeated(key) ==
    /\ Len(keys) < MaxRepeat
    /\ Handled(key)
    /\ UNCHANGED <<ncalls, editorVars, gameVars>>

SpecRepeat ==
    Init /\ [][\E key \in {Char("f"), Char("x"), Char(";"), Char(",")} : Repeated(key)]_vars

\* ----- Viewport -----
\* a buffer of any number of lines and the default viewport
InitViewport ==
    /\ FreshInput
    /\ buffer \in {[r \in 1..n |-> <<>>] : n \in 0..ViewMaxLines}
    /\ pos = Position(0, 0)
    /\ cursor = CursorDefault
    /\ applied = NoApplied

\* the UI's call before it draws a frame: adjust_for_cursor with the cursor,
\* which is on a row of the buffer (row 0 of an empty one), the number of
\* lines of the buffer and the height of the window; applied records the
\* call and the viewport it was made on
AdjustForCursor(row, visible_height) ==
    /\ row < rows(buffer) \/ row = 0
    /\ viewport' = adjust_for_cursor(viewport, Position(row, 0), rows(buffer), visible_height)
    /\ applied' = [op |-> "adjust_for_cursor", cursor |-> Position(row, 0),
                   buffer_lines |-> rows(buffer), visible_height |-> visible_height,
                   pre |-> viewport]
    /\ UNCHANGED <<inputVars, buffer, pos, cursor, enemies, picking>>

SpecViewport ==
    InitViewport /\ [][\E row \in 0..ViewMaxLines, visible_height \in 0..ViewMaxHeight :
                           AdjustForCursor(row, visible_height)]_vars

\* ----- Enemies -----
\* the enemies as constructed, on an empty buffer or on one with a word, a
\* space and an empty line
InitEnemies ==
    /\ FreshInput
    /\ buffer \in {<<>>, <<<<"a", " ">>, <<>>>>}
    /\ pos = Position(0, 0)
    /\ cursor = CursorDefault
    /\ applied = NoApplied

\* Enemies::tick(buffer).  should_spawn is the spawner's answer, which
\* depends on the clock; id is the key take_enemy finds first in the pool's
\* HashMap and start_pos what random_position returns (the default position
\* on an empty buffer).  Then every active enemy ticks: it stays, or moves
\* when its own clock says so.  applied records the call and the enemies it
\* was made on.
Tick(should_spawn, id, start_pos) ==
    LET spawns == should_spawn /\ DOMAIN enemies.enemy_pool # {}
        spawned == IF spawns THEN spawn(enemies, id, start_pos) ELSE enemies
        reachable == UNION {Moves(buffer, spawned.active[e]) : e \in DOMAIN spawned.active}
    IN /\ IF spawns
          THEN /\ id \in DOMAIN enemies.enemy_pool
               /\ start_pos \in (IF is_empty(buffer) THEN {Position(0, 0)}
                                  ELSE RandomPositions(buffer, FALSE))
          ELSE id = 0 /\ start_pos = Position(0, 0)
       /\ \E moved \in [DOMAIN spawned.active -> reachable] :
             /\ \A e \in DOMAIN moved : moved[e] \in Moves(buffer, spawned.active[e])
             /\ enemies' = [active |-> moved, enemy_pool |-> spawned.enemy_pool]
       /\ applied' = [op |-> "tick", id |-> id, pre |-> enemies]
       /\ UNCHANGED <<inputVars, buffer, pos, cursor, viewport, picking>>

\* Enemies::destroy(id), with the id of any enemy or of none
Destroy(id) ==
    /\ enemies' = destroy(enemies, id)
    /\ applied' = [op |-> "destroy", id |-> id, pre |-> enemies]
    /\ UNCHANGED <<inputVars, buffer, pos, cursor, viewport, picking>>

SpecEnemies ==
    /\ InitEnemies
    /\ [][\/ \E should_spawn \in BOOLEAN, id \in 0..(PoolSize - 1),
               start_pos \in {Position(0, 0)} \cup RandomPositions(buffer, FALSE) :
              Tick(should_spawn, id, start_pos)
          \/ \E id \in 0..PoolSize : Destroy(id)]_vars

\* ----- Buffer::random_position -----
InitRandom ==
    /\ FreshInput
    /\ buffer \in Buffers({"a", " "}, RndMaxRows, RndMaxChars)
    /\ pos = Position(0, 0)
    /\ cursor = CursorDefault
    /\ applied = NoApplied

\* the call of random_position(allow_space), up to its loop: None at once
\* for an empty buffer
RandomPosition(allow_space) ==
    /\ picking.op = "-"
    /\ picking' = [NoPick EXCEPT !.op = IF is_empty(buffer) THEN "returned" ELSE "loop",
                                 !.allow_space = allow_space]
    /\ UNCHANGED <<inputVars, editorVars, viewport, enemies>>

\* one iteration of the loop, with the row and the column the generator
\* gives; no column is drawn on a line of length 0
Draw(row, col) ==
    /\ picking.op = "loop"
    /\ row < rows(buffer)
    /\ IF get_line_len(buffer, row) = 0
       THEN /\ col = 0
            /\ picking' = [picking EXCEPT !.row = row, !.col = 0, !.rng = 1 - @]
       ELSE /\ col <= get_line_len(buffer, row)
            /\ picking' =
                  IF picking.allow_space \/ ~is_space(buffer, Position(row, col))
                  THEN [picking EXCEPT !.op = "returned", !.row = row, !.col = col,
                                       !.rng = 1 - @,
                                       !.result = SomePos(Position(row, col))]
                  ELSE [picking EXCEPT !.row = row, !.col = col, !.rng = 1 - @]
    /\ UNCHANGED <<inputVars, editorVars, viewport, enemies>>

\* the generator is fair: a draw that stays possible is made in the end
SpecRandom ==
    /\ InitRandom
    /\ [][\/ \E allow_space \in BOOLEAN : RandomPosition(allow_space)
          \/ \E row \in 0..(RndMaxRows - 1), col \in 0..RndMaxChars : Draw(row, col)]_vars
    /\ \A row \in 0..(RndMaxRows - 1), col \in 0..RndMaxChars : WF_vars(Draw(row, col))

\* ----- BoundedQueue on its own -----
\* a queue created with any capacity; event_history holds it, last the
\* queue as created
InitQueue ==
    \E capacity \in 0..QueueMaxCapacity :
        LET im == Manager(Idle, BoundedQueueNew(capacity), BoundedQueueNew(MOTION_HISTORY_LEN))
        IN /\ state = Idle
           /\ event_history = im.event_history
           /\ motion_history = im.motion_history
           /\ last = Call("new", EscKey, NoAction, im)
           /\ typed = <<>>
           /\ keys = <<>>
           /\ ncalls = 0
           /\ buffer = <<>>
           /\ pos = Position(0, 0)
           /\ cursor = CursorDefault
           /\ applied = NoApplied
           /\ FreshGame

\* BoundedQueue::push(key); keys records the items pushed.  When push_back
\* has to reallocate, the new capacity is any that holds the item.
Push(key, grown) ==
    /\ Len(keys) < QueueMaxPushes
    /\ grown > Len(event_history.items)
    /\ event_history' = BoundedQueuePushGrowing(event_history, key, grown)
    /\ keys' = Append(keys, key)
    /\ UNCHANGED <<state, motion_history, last, typed, ncalls, editorVars, gameVars>>

SpecQueue ==
    InitQueue /\ [][\E key \in {Char("h"), Char("l")}, grown \in 1..QueueMaxGrown :
                        Push(key, grown)]_vars

(***************************************************************************)
(* Vocabulary of the properties, written from the key sequences alone.     *)
(***************************************************************************)
IsCall == last.op = "handle_key"

Front(s) == SubSeq(s, 1, Len(s) - 1)
Newest(s) == s[Len(s)]

\* d1..dk with d1 in 1-9 and every later digit in 0-9, all unmodified
IsCount(ds) ==
    /\ Len(ds) >= 1
    /\ \A i \in 1..Len(ds) :
          /\ ds[i].code = "Char"
          /\ ds[i].mods = "NONE"
          /\ ds[i].ch \in {"0", "1", "2", "3", "4", "5", "6", "7", "8", "9"}
    /\ ds[1].ch # "0"

Pow10(e) == 10 ^ e

RECURSIVE PlaceSum(_, _)
PlaceSum(ds, i) ==
    IF i > Len(ds) THEN 0
    ELSE ToDigit(ds[i].ch) * Pow10(Len(ds) - i) + PlaceSum(ds, i + 1)

\* the decimal value of the digit keys ds
DecimalValue(ds) == PlaceSum(ds, 1)

\* the motion of an unmodified motion key
KeyMotionKind ==
    [c \in {"h", "l", "j", "k", "w", "e", "b"} |->
        CASE c = "h" -> "Left" [] c = "l" -> "Right" [] c = "j" -> "Down"
          [] c = "k" -> "Up" [] c = "w" -> "WordStart" [] c = "e" -> "WordEnd"
          [] c = "b" -> "WordBackward"]

IsMotionKey(key) ==
    key.code = "Char" /\ key.mods = "NONE" /\ key.ch \in DOMAIN KeyMotionKind

\* the find/till motion of a target letter
FindTillKind ==
    [c \in {"f", "F", "t", "T"} |->
        CASE c = "f" -> "FindNextChar" [] c = "F" -> "FindPrevChar"
          [] c = "t" -> "TillNextChar" [] c = "T" -> "TillPrevChar"]

IsFindTill(m) == \E c \in DOMAIN FindTillKind : m.kind = FindTillKind[c]

\* f, F, t, T as the keyboard sends them
IsTargetLetter(key) ==
    /\ key.code = "Char"
    /\ \/ key.mods = "NONE" /\ key.ch \in {"f", "t"}
       \/ key.mods = "SHIFT" /\ key.ch \in {"F", "T"}

\* a queue of capacity cap after item was pushed onto items, drop-oldest
Pushed(items, cap, item) ==
    IF Len(items) < cap THEN items \o <<item>>
    ELSE SubSeq(items, 2, Len(items)) \o <<item>>

TargetResolvedAt(i) ==
    /\ i < Len(typed)
    /\ IsTargetLetter(typed[i])
    /\ i = 1 \/ IsCount(SubSeq(typed, 1, i - 1))
    /\ \A j \in (i + 1)..(Len(typed) - 1) : typed[j].code # "Char"
    /\ Newest(typed).code = "Char"

C2_TargetResolves ==
    IsCall =>
        \A i \in 1..Len(typed) :
            TargetResolvedAt(i) =>
                LET m == Motion(FindTillKind[typed[i].ch], Newest(typed).ch)
                    count == IF i = 1 THEN None
                             ELSE Some(DecimalValue(SubSeq(typed, 1, i - 1)))
                IN /\ last.action = UserAction("Motion", m, count)
                   /\ motion_history.items =
                         Pushed(last.pre.motion_history.items, MOTION_HISTORY_LEN, m)
                   /\ state = Idle

\* a target has just been resolved for a T entered from Counting
C2_Witness ==
    /\ IsCall
    /\ Len(typed) = 3
    /\ TargetResolvedAt(2)
    /\ typed[2].ch = "T"
    /\ last.action.count.some

(***************************************************************************)
(* C3: in Idle, ';' returns Motion(m, no count) where m is the newest      *)
(* entry of the motion history iff that entry is a find/till motion, and   *)
(* Noop otherwise (also when the history is empty); the state stays Idle.  *)
(* So f, x, ';' makes ';' return FindNextChar('x') again.                  *)
(***************************************************************************)
C3_RepeatFind ==
    (IsCall /\ last.pre.state = Idle /\ last.key = Char(";")) =>
        LET h == last.pre.motion_history.items
        IN /\ IF Len(h) > 0 /\ IsFindTill(Newest(h))
              THEN last.action = UserAction("Motion", Newest(h), None)
              ELSE last.action = Noop
           /\ state = Idle
           /\ (Len(keys) >= 3 /\ SubSeq(keys, Len(keys) - 2, Len(keys))
                                   = <<Char("f"), Char("x"), Char(";")>>
               /\ SubSeq(keys, 1, Len(keys) - 3) \in {<<>>, WarmUpKeys})
              => last.action = UserAction("Motion", Motion("FindNextChar", "x"), None)

\* ';' has just replayed a till motion
C3_Witness ==
    /\ IsCall
    /\ last.pre.state = Idle
    /\ last.key = Char(";")
    /\ last.action.tag = "Motion"
    /\ last.action.motion.kind = "TillPrevChar"

(***************************************************************************)
(* C4: in Idle, ',' returns Motion(reverse of m, no count) where m is the  *)
(* newest entry of the motion history: FindNextChar(c) <-> FindPrevChar(c) *)
(* and TillNextChar(c) <-> TillPrevChar(c) with the same target; it        *)
(* returns Noop when the history is empty or m is not a find/till motion;  *)
(* the state stays Idle.                                                   *)
(***************************************************************************)
ReversedKind ==
    [k \in {"FindNextChar", "FindPrevChar", "TillNextChar", "TillPrevChar"} |->
        CASE k = "FindNextChar" -> "FindPrevChar" [] k = "FindPrevChar" -> "FindNextChar"
          [] k = "TillNextChar" -> "TillPrevChar" [] k = "TillPrevChar" -> "TillNextChar"]

C4_ReverseFind ==
    (IsCall /\ last.pre.state = Idle /\ last.key = Char(",")) =>
        LET h == last.pre.motion_history.items
        IN /\ IF Len(h) > 0 /\ IsFindTill(Newest(h))
              THEN last.action =
                      UserAction("Motion", Motion(ReversedKind[Newest(h).kind], Newest(h).ch), None)
              ELSE last.action = Noop
           /\ state = Idle

\* ',' has just reversed a till motion
C4_Witness ==
    /\ IsCall
    /\ last.pre.state = Idle
    /\ last.key = Char(",")
    /\ last.action.tag = "Motion"
    /\ Newest(last.pre.motion_history.items).kind = "TillNextChar"

(***************************************************************************)
(* C5: from Idle, ':' returns Pending and the next key decides the combo:  *)
(* 'q' returns Quit, 'n' returns NewGame and any other key returns Noop;   *)
(* in all three cases the state is Idle after the second key.              *)
(***************************************************************************)
C5_Combo ==
    (IsCall /\ Len(typed) >= 1 /\ typed[1] = Char(":")) =>
        /\ Len(typed) <= 2
        /\ Len(typed) = 1 => last.action = Pending
        /\ Len(typed) = 2 =>
              /\ last.action = CASE typed[2] = Char("q") -> Quit
                                 [] typed[2] = Char("n") -> NewGame
                                 [] OTHER -> Noop
              /\ state = Idle

\* ':' followed by 'n' has just been handled
C5_Witness ==
    /\ IsCall
    /\ typed = <<Char(":"), Char("n")>>
    /\ last.action = NewGame

(***************************************************************************)
(* C6: in every multi-key state (Counting, AwaitingTarget, AwaitingCombo)  *)
(* a key the state does not recognise yields Noop and leaves the machine   *)
(* in Idle; in particular a non-character key received in AwaitingTarget   *)
(* returns Noop and the state after it is Idle.                            *)
(***************************************************************************)
\* the keys a multi-key state gives no meaning to
Unrecognised(st, key) ==
    CASE st.tag = "Counting" ->
            /\ ~IsMotionKey(key)
            /\ ~IsTargetLetter(key)
            /\ ~IsCount(<<Char("1"), key>>)
      [] st.tag = "AwaitingTarget" -> key.code # "Char"
      [] st.tag = "AwaitingCombo" -> key \notin {Char("q"), Char("n")}
      [] OTHER -> FALSE

C6_UnrecognisedKeyToIdle ==
    (IsCall /\ Unrecognised(last.pre.state, last.key)) =>
        /\ last.action = Noop
        /\ state = Idle

C8_EveryMotionPushed ==
    IsCall =>
        IF last.action.tag = "Motion"
        THEN motion_history.items =
                Pushed(last.pre.motion_history.items, MOTION_HISTORY_LEN, last.action.motion)
        ELSE motion_history = last.pre.motion_history

(***************************************************************************)
(* C8, amended: every call of handle_key that returns a Motion action,     *)
(* other than a ';' or ',' replay handled in Idle, pushes that motion onto *)
(* the bounded motion history (newest entry, evicting the oldest when 8    *)
(* are held); a ';' or ',' replay and a call that returns Pending, Noop,   *)
(* Quit or NewGame leave the motion history unchanged.                     *)
(***************************************************************************)
IsReplay == last.pre.state = Idle /\ last.key \in {Char(";"), Char(",")}

C8_ResolvedMotionPushed ==
    IsCall =>
        IF last.action.tag = "Motion" /\ ~IsReplay
        THEN motion_history.items =
                Pushed(last.pre.motion_history.items, MOTION_HISTORY_LEN, last.action.motion)
        ELSE motion_history = last.pre.motion_history

\* a motion has just been pushed onto a full motion history
C8_Witness ==
    /\ IsCall
    /\ last.action.tag = "Motion"
    /\ ~IsReplay
    /\ Len(last.pre.motion_history.items) = MOTION_HISTORY_LEN
    /\ Newest(last.pre.motion_history.items) # last.pre.motion_history.items[1]
    /\ Len(motion_history.items) = MOTION_HISTORY_LEN

(***************************************************************************)
(* C9: every key passed to handle_key is the newest entry of the key-event *)
(* history when the call returns; the history holds the most recent        *)
(* min(number of keys since reset, 32) keys in arrival order, and          *)
(* keys_iter yields them newest first.                                     *)
(***************************************************************************)
Min(a, b) == IF a < b THEN a ELSE b

C9_KeyHistory ==
    LET n == Min(Len(keys), EVENT_HISTORY_LEN)
    IN /\ IsCall => /\ Len(event_history.items) > 0
                    /\ Newest(event_history.items) = last.key
       /\ event_history.items = SubSeq(keys, Len(keys) - n + 1, Len(keys))
       /\ Len(keys_iter) = n
       /\ \A i \in 1..n : keys_iter[i] = keys[Len(keys) + 1 - i]

\* more keys than the history holds have been handled, the newest ones differ
C9_Witness ==
    /\ IsCall
    /\ Len(keys) > EVENT_HISTORY_LEN
    /\ keys[Len(keys)] # keys[Len(keys) - 1]
    /\ keys[1] # keys[EVENT_HISTORY_LEN]

(***************************************************************************)
(* C10: reset, called in any state and after any key sequence, leaves the  *)
(* state Idle and both histories empty, so the machine behaves like a      *)
(* freshly created one: ';' right after reset yields Noop, and a pending   *)
(* count or target is forgotten.                                           *)
(***************************************************************************)
C10_Reset ==
    /\ last.op = "reset" =>
          /\ state = Idle
          /\ event_history.items = <<>>
          /\ motion_history.items = <<>>
          /\ Current = ManagerDefault
    /\ (IsCall /\ Len(keys) = 1) =>
          /\ last.pre = ManagerDefault
          /\ typed = keys
          /\ last.key = Char(";") => last.action = Noop
          /\ IsMotionKey(last.key) =>
                last.action = UserAction("Motion", Motion(KeyMotionKind[last.key.ch], ""), None)

\* reset has just been called with a count pending and both histories filled
C10_Witness ==
    /\ last.op = "reset"
    /\ last.pre.state.tag = "Counting"
    /\ Len(last.pre.motion_history.items) > 0
    /\ Len(last.pre.event_history.items) > 0
    /\ Current = ManagerDefault

(***************************************************************************)
(* C11: in Idle, each unmodified key h, l, j, k, w, e, b returns a single  *)
(* Motion with no count (h Left, l Right, j Down, k Up, w WordStart,       *)
(* e WordEnd, b WordBackward), pushes it onto the motion history and keeps *)
(* the state Idle; every key that is not one of these, a digit 1-9,        *)
(* f/F/t/T, ';', ',' or ':' -- '0' and the motion letters with a modifier  *)
(* included -- returns Noop and keeps the state Idle.                      *)
(***************************************************************************)
\* the characters the claim gives another meaning to in Idle
IdleSpecialChars == {"1", "2", "3", "4", "5", "6", "7", "8", "9",
                     "f", "F", "t", "T", ";", ",", ":"}

C11_IdleKeys ==
    (IsCall /\ last.pre.state = Idle) =>
        IF IsMotionKey(last.key)
        THEN /\ last.action =
                   UserAction("Motion", Motion(KeyMotionKind[last.key.ch], ""), None)
             /\ motion_history.items =
                   Pushed(last.pre.motion_history.items, MOTION_HISTORY_LEN,
                          Motion(KeyMotionKind[last.key.ch], ""))
             /\ state = Idle
        ELSE (last.key.code # "Char" \/ last.key.ch \notin IdleSpecialChars) =>
                /\ last.action = Noop
                /\ state = Idle

\* a motion letter with a modifier has just been ignored in Idle, after an
\* unmodified one was turned into its motion
C11_Witness ==
    /\ IsCall
    /\ last.pre.state = Idle
    /\ last.key = CtrlChar("h")
    /\ last.action = Noop
    /\ Len(keys) > Len(WarmUpKeys) + 1
    /\ keys[Len(keys) - 1] = Char("w")
    /\ Newest(motion_history.items) = Motion("WordStart", "")

(***************************************************************************)
(* C12, as claimed: from Idle and from Counting(n), each of the keys f, F, *)
(* t and T received with no modifier begins target acquisition: handle_key *)
(* returns Pending and the state becomes AwaitingTarget for that letter    *)
(* (with count n when coming from Counting(n)).                            *)
(***************************************************************************)
\* the count a target acquisition begun in state st carries
PendingCount(st) == IF st.tag = "Counting" THEN Some(st.n) ELSE None

C12_UnmodifiedTargetKeys ==
    (/\ IsCall
     /\ last.pre.state.tag \in {"Idle", "Counting"}
     /\ last.key.code = "Char"
     /\ last.key.mods = "NONE"
     /\ last.key.ch \in {"f", "F", "t", "T"}) =>
        /\ last.action = Pending
        /\ state = AwaitingTarget(last.key.ch, PendingCount(last.pre.state))

(***************************************************************************)
(* C12, amended: from Idle and from Counting(n), the keys f and t received *)
(* with no modifier and the keys F and T received with the SHIFT modifier  *)
(* begin target acquisition: handle_key returns Pending and the state      *)
(* becomes AwaitingTarget for that letter (with count n when coming from   *)
(* Counting(n)).  An F or T received with no modifier is not a target key: *)
(* it returns Noop and leaves the state Idle.                              *)
(***************************************************************************)
C12_TargetKeys ==
    (IsCall /\ last.pre.state.tag \in {"Idle", "Counting"}) =>
        /\ IsTargetLetter(last.key) =>
              /\ last.action = Pending
              /\ state = AwaitingTarget(last.key.ch, PendingCount(last.pre.state))
        /\ (last.key.code = "Char" /\ last.key.mods = "NONE" /\ last.key.ch \in {"F", "T"}) =>
              /\ last.action = Noop
              /\ state = Idle

\* shifted T has just begun a target acquisition with a two-digit count
C12_Witness ==
    /\ IsCall
    /\ last.pre.state = Counting(13)
    /\ last.key = ShiftChar("T")
    /\ state = AwaitingTarget("T", Some(13))

(***************************************************************************)
(* C13: in every key sequence, handle_key returns Quit (resp. NewGame)     *)
(* only for an unmodified 'q' (resp. 'n') that immediately follows an      *)
(* unmodified ':' which was handled in Idle; no other key, state or        *)
(* history content produces Quit or NewGame.                               *)
(***************************************************************************)
C13_QuitOnlyByCombo ==
    IsCall =>
        /\ last.action = Quit =>
              /\ typed = <<Char(":"), Char("q")>>
              /\ last.pre.state = AwaitingCombo(":", None)
        /\ last.action = NewGame =>
              /\ typed = <<Char(":"), Char("n")>>
              /\ last.pre.state = AwaitingCombo(":", None)
        /\ (Len(keys) >= 2 /\ keys[Len(keys) - 1] = Char(":") /\ Len(typed) # 2) =>
              last.action \notin {Quit, NewGame}

\* 'q' typed in Idle returned no Quit, and the ':' 'q' typed next does
C13_Witness ==
    /\ IsCall
    /\ last.action = Quit
    /\ Len(keys) >= Len(WarmUpKeys) + 3
    /\ keys[Len(keys) - 2] = Char("q")

(***************************************************************************)
(* Vocabulary of the buffer-side properties.  Line lengths and columns are *)
(* measured as Buffer::get_line_len measures them.                         *)
(***************************************************************************)
IsApply == applied.op = "apply"
IsApplyMotion == applied.op = "apply_motion"
IsStep(op) == applied.op = op

\* p is a stopping point of buffer b: a column of one of its lines, or
\* column 0 of an empty line
OnBuffer(b, p) ==
    /\ p.row < rows(b)
    /\ p.col < get_line_len(b, p.row) \/ (p.col = 0 /\ get_line_len(b, p.row) = 0)

\* The one-step version of a motion: the body of the loop of the function
\* Motion::apply calls for it.
OneStep(m, b, p) ==
    CASE m.kind = "Left" -> step_char(b, p, Backward)
      [] m.kind = "Right" -> step_char(b, p, Forward)
      [] m.kind = "Down" -> step_line(b, p, Backward)
      [] m.kind = "Up" -> step_line(b, p, Forward)
      [] m.kind = "WordStart" -> w_motion_once(b, p)
      [] m.kind = "WordEnd" -> e_motion_once(b, p)
      [] m.kind = "WordBackward" -> b_motion_once(b, p)
      [] m.kind = "FindNextChar" -> jump_to_char(b, p, m.ch, Forward)
      [] m.kind = "FindPrevChar" -> jump_to_char(b, p, m.ch, Backward)
      [] m.kind = "TillNextChar" -> jump_before_char(b, p, m.ch, Forward)
      [] m.kind = "TillPrevChar" -> jump_before_char(b, p, m.ch, Backward)

\* the position after n one-step versions in sequence, stopping at the first
\* that fails and keeping what it left
RECURSIVE Steps(_, _, _, _)
Steps(m, b, p, n) ==
    IF n = 0 THEN p
    ELSE LET s == OneStep(m, b, p)
         IN IF s.ok THEN Steps(m, b, s.pos, n - 1) ELSE s.pos

(***************************************************************************)
(* C14: Motion::apply(buffer, position, count) with count n > 1 equals     *)
(* applying the motion's one-step version n times in sequence and stopping *)
(* at the first step that fails: the result is the position reached by the *)
(* steps made so far (partial progress is kept, nothing is rolled back),   *)
(* for every motion kind.                                                  *)
(***************************************************************************)
C14_CountRepeatsOneStep ==
    (IsApply /\ applied.count.val > 1) =>
        pos = Steps(applied.motion, buffer, applied.pre.position, applied.count.val)

\* Right with count 3 has made two steps and stopped at the third
C14_Witness ==
    /\ IsApply
    /\ applied.motion.kind = "Right"
    /\ applied.count = Some(3)
    /\ pos = Steps(applied.motion, buffer, applied.pre.position, 2)
    /\ pos # Steps(applied.motion, buffer, applied.pre.position, 1)
    /\ pos # applied.pre.position
    /\ ~OneStep(applied.motion, buffer, pos).ok

(***************************************************************************)
(* C15: Cursor.apply_motion keeps a target column: every non-vertical      *)
(* motion sets it to the column it ends on, and every vertical motion      *)
(* (Up/Down) ends at column min(target column, length of the new line), or *)
(* at the raw step_line column when no target column is remembered yet.    *)
(* So after moving Right to column 5, Down onto a 3-column line and Down   *)
(* again onto a 10-column line, the cursor is at column 5 again.           *)
(***************************************************************************)
\* the count a call uses
CountOf(count) == IF count.some THEN count.val ELSE 1

C15_StickyColumn ==
    IsApplyMotion =>
        LET raw == apply(applied.motion, buffer, applied.pre.position, CountOf(applied.count))
        IN IF applied.motion.kind \in {"Up", "Down"}
           THEN /\ cursor.position.row = raw.row
                /\ cursor.position.col =
                      IF applied.pre.target_col.some
                      THEN Min(applied.pre.target_col.val,
                               get_line_len(buffer, cursor.position.row))
                      ELSE raw.col
                /\ cursor.target_col = applied.pre.target_col
           ELSE /\ cursor.position = raw
                /\ cursor.target_col = Some(cursor.position.col)

\* the second Down of the example: from the 3-column line, where the cursor
\* stood at column 3 with target column 5, onto the 10-column line
C15_Witness ==
    /\ IsApplyMotion
    /\ buffer = StickyBuffer
    /\ applied.motion.kind = "Down"
    /\ applied.pre.target_col = Some(5)
    /\ get_line_len(buffer, applied.pre.position.row) = 3
    /\ applied.pre.position.col = 3
    /\ get_line_len(buffer, cursor.position.row) = 10
    /\ cursor.position.col = 5

(***************************************************************************)
(* C16: Motion::Down (key j) applied with count 1 from a row that is not   *)
(* the last row moves the cursor to the next line (row + 1), and           *)
(* Motion::Up (key k) from a row that is not the first row moves it to the *)
(* previous line (row - 1); Down at the last row and Up at row 0 leave the *)
(* row unchanged.                                                          *)
(***************************************************************************)
C16_DownIsNextLine ==
    (IsApply /\ applied.count = Some(1) /\ applied.pre.position.row < rows(buffer)) =>
        LET row == applied.pre.position.row
        IN /\ applied.motion.kind = "Down" =>
                 pos.row = IF row + 1 < rows(buffer) THEN row + 1 ELSE row
           /\ applied.motion.kind = "Up" =>
                 pos.row = IF row > 0 THEN row - 1 ELSE row

LastCol(b, r) == IF get_line_len(b, r) = 0 THEN 0 ELSE get_line_len(b, r) - 1

C18_StepChar ==
    (IsStep("step_char") /\ OnBuffer(buffer, applied.pre.position)) =>
        LET p == applied.pre.position
        IN IF applied.direction = Forward
           THEN IF p.col # LastCol(buffer, p.row)
                THEN applied.ok /\ pos = Position(p.row, p.col + 1)
                ELSE IF p.row + 1 < rows(buffer)
                     THEN applied.ok /\ pos = Position(p.row + 1, 0)
                     ELSE ~applied.ok
           ELSE IF p.col > 0
                THEN applied.ok /\ pos = Position(p.row, p.col - 1)
                ELSE IF p.row > 0
                     THEN applied.ok /\ pos = Position(p.row - 1, LastCol(buffer, p.row - 1))
                     ELSE ~applied.ok

\* a Backward step from column 0 has landed on the last column of a longer
\* previous row
C18_Witness ==
    /\ IsStep("step_char")
    /\ applied.direction = Backward
    /\ OnBuffer(buffer, applied.pre.position)
    /\ applied.pre.position.col = 0
    /\ applied.ok
    /\ pos.row + 1 = applied.pre.position.row
    /\ pos.col > 0

(***************************************************************************)
(* C19: for every position p on the buffer and direction d, if             *)
(* step_char(p, d) succeeds and p is not at a line edge that makes the     *)
(* step wrap to another row, then step_char with opposite(d) from the new  *)
(* position succeeds and returns exactly to p.                             *)
(***************************************************************************)
C19_StepCharRoundTrip ==
    (/\ IsStep("step_char")
     /\ OnBuffer(buffer, applied.pre.position)
     /\ applied.ok
     /\ pos.row = applied.pre.position.row) =>
        step_char(buffer, pos, opposite(applied.direction))
            = Stepped(TRUE, applied.pre.position)

\* a step inside a line has been made, between two columns that both have
\* a neighbour on each side
C19_Witness ==
    /\ IsStep("step_char")
    /\ OnBuffer(buffer, applied.pre.position)
    /\ applied.ok
    /\ pos.row = applied.pre.position.row
    /\ pos.col > 0
    /\ applied.pre.position.col > 0
    /\ step_char(buffer, pos, opposite(applied.direction)).pos = applied.pre.position

(***************************************************************************)
(* C20: step_char_skip_spaces performs one step_char and then keeps        *)
(* stepping while the landed character is whitespace; it returns true when *)
(* it stops on a non-space character, on an empty line, or at the buffer   *)
(* end, and it returns false only if the very first step_char fails (so    *)
(* whitespace running to the end or start of the buffer still gives true). *)
(***************************************************************************)
C20_SkipSpacesFailsOnFirstStepOnly ==
    (IsStep("step_char_skip_spaces") /\ OnBuffer(buffer, applied.pre.position)) =>
        applied.ok = step_char(buffer, applied.pre.position, applied.direction).ok

(***************************************************************************)
(* C21: step_line moves exactly one row in the given direction and sets    *)
(* the column to min(current column, new line length - 1), which is 0 for  *)
(* an empty line; it returns false, moving nothing, when Forward is asked  *)
(* on the last row or Backward on row 0.                                   *)
(***************************************************************************)
C21_StepLine ==
    (IsStep("step_line") /\ applied.pre.position.row < rows(buffer)) =>
        LET p == applied.pre.position
            r == IF applied.direction = Forward THEN p.row + 1 ELSE p.row - 1
        IN IF (applied.direction = Forward /\ p.row + 1 = rows(buffer))
                \/ (applied.direction = Backward /\ p.row = 0)
           THEN ~applied.ok /\ pos = p
           ELSE applied.ok /\ pos = Position(r, Min(p.col, LastCol(buffer, r)))

\* a step onto a shorter, non-empty line has pulled the column back
C21_Witness ==
    /\ IsStep("step_line")
    /\ OnBuffer(buffer, applied.pre.position)
    /\ applied.ok
    /\ pos.col < applied.pre.position.col
    /\ pos.col > 0

(***************************************************************************)
(* The stopping points of a buffer in buffer order, and the occurrences of *)
(* a character on one side of a position.                                  *)
(***************************************************************************)
\* p comes before q in buffer order
Before(p, q) == p.row < q.row \/ (p.row = q.row /\ p.col < q.col)

StoppingPoints(b) ==
    UNION {{Position(r, c) : c \in 0..LastCol(b, r)} : r \in 0..(rows(b) - 1)}

\* q is on the side of p that direction d walks to
Ahead(p, q, d) == IF d = Forward THEN Before(p, q) ELSE Before(q, p)

\* the stopping points ahead of p that hold the character target
Occurrences(b, p, target, d) ==
    {q \in StoppingPoints(b) :
        /\ Ahead(p, q, d)
        /\ get_line(b, q.row).some
        /\ q.col < Len(get_line(b, q.row).line)
        /\ get_line(b, q.row).line[q.col + 1] = target}

\* the one of a non-empty set of positions that is nearest to p
Nearest(qs, p, d) == CHOOSE q \in qs : \A o \in qs : o = q \/ Ahead(q, o, d)

(***************************************************************************)
(* C22: find_char(pos, target, direction) returns the nearest position     *)
(* strictly after pos in step_char order (crossing line boundaries, never  *)
(* pos itself) whose character equals target, and none when no such        *)
(* position exists before the buffer end; jump_to_char moves to that       *)
(* position and returns true exactly when find_char finds one.             *)
(***************************************************************************)
C22_FindChar ==
    (IsStep("jump_to_char") /\ OnBuffer(buffer, applied.pre.position)) =>
        LET p == applied.pre.position
            d == applied.direction
            occ == Occurrences(buffer, p, applied.motion.ch, d)
            found == find_char(buffer, p, applied.motion.ch, d)
        IN IF occ = {}
           THEN ~found.some /\ ~applied.ok /\ pos = p
           ELSE /\ found = SomePos(Nearest(occ, p, d))
                /\ applied.ok
                /\ pos = found.pos

\* a jump from an occurrence of the target to the next one, on another row
C22_Witness ==
    /\ IsStep("jump_to_char")
    /\ OnBuffer(buffer, applied.pre.position)
    /\ get_char(buffer, applied.pre.position) = [some |-> TRUE, c |-> applied.motion.ch]
    /\ applied.ok
    /\ pos.row # applied.pre.position.row

(***************************************************************************)
(* C23: jump_before_char(pos, target, direction) lands on the position one *)
(* step_char short of the nearest occurrence of target in that direction   *)
(* (the stopping point just before it for Forward, just after it for       *)
(* Backward, also across a line boundary) and returns true; it returns     *)
(* false when the target is not found or the back-step fails.  From a      *)
(* stopping point of the buffer the back-step cannot fail.                 *)
(***************************************************************************)
\* the stopping point next to q on the side walking in direction d comes from
Short(b, q, d) ==
    Nearest({o \in StoppingPoints(b) : Ahead(o, q, d)}, q, opposite(d))

C23_JumpBeforeChar ==
    (IsStep("jump_before_char") /\ OnBuffer(buffer, applied.pre.position)) =>
        LET p == applied.pre.position
            d == applied.direction
            occ == Occurrences(buffer, p, applied.motion.ch, d)
        IN IF occ = {}
           THEN ~applied.ok /\ pos = p
           ELSE applied.ok /\ pos = Short(buffer, Nearest(occ, p, d), d)

\* a till that has moved and landed on the row next to the one of the
\* occurrence
C23_Witness ==
    /\ IsStep("jump_before_char")
    /\ OnBuffer(buffer, applied.pre.position)
    /\ applied.ok
    /\ pos # applied.pre.position
    /\ find_char(buffer, applied.pre.position, applied.motion.ch, applied.direction).pos.row
           # pos.row

(***************************************************************************)
(* C24: whenever step_char, step_line, jump_to_char or jump_before_char    *)
(* returns false, the position it was called on is unchanged: row and      *)
(* column equal their values before the call.  Stated for every position   *)
(* given, on the buffer or not.                                            *)
(***************************************************************************)
C24_FalseMovesNothing ==
    (/\ applied.op \in {"step_char", "step_line", "jump_to_char", "jump_before_char"}
     /\ ~applied.ok) =>
        /\ pos.row = applied.pre.position.row
        /\ pos.col = applied.pre.position.col

\* a till that found its target and failed on the step back
C24_Witness ==
    /\ IsStep("jump_before_char")
    /\ ~applied.ok
    /\ find_char(buffer, applied.pre.position, applied.motion.ch, applied.direction).some
    /\ pos = applied.pre.position

(***************************************************************************)
(* C25: get_char(pos) is a character exactly when pos.row < rows() and     *)
(* pos.col < the line's character count, and none otherwise (never an      *)
(* error); is_space(pos) is true iff that character exists and is          *)
(* whitespace, so an out-of-range position and column 0 of an empty line   *)
(* are not space; is_empty_line(pos) is true iff row pos.row exists and    *)
(* has zero length.                                                        *)
(***************************************************************************)
\* position p addresses a character of buffer b
HasChar(b, p) == p.row < Len(b) /\ p.col < Len(b[p.row + 1])

C25_BufferQueries ==
    LET p == applied.pre.position
    IN /\ IsStep("get_char") =>
            IF HasChar(buffer, p)
            THEN applied.result = [some |-> TRUE, c |-> buffer[p.row + 1][p.col + 1]]
            ELSE ~applied.result.some
       /\ IsStep("is_space") =>
            (applied.result <=> (HasChar(buffer, p) /\ buffer[p.row + 1][p.col + 1] = " "))
       /\ IsStep("is_empty_line") =>
            (applied.result <=> (p.row < Len(buffer) /\ buffer[p.row + 1] = <<>>))

\* is_space was asked about column 0 of an empty line
C25_Witness ==
    /\ IsStep("is_space")
    /\ applied.pre.position.row < Len(buffer)
    /\ buffer[applied.pre.position.row + 1] = <<>>
    /\ applied.pre.position.col = 0
    /\ applied.result = FALSE

(***************************************************************************)
(* C26: lines are measured in characters, not bytes: get_line_len(row)     *)
(* equals the number of characters of the line (0 when the row is out of   *)
(* range), and the line-end tests of step_char and step_line use that same *)
(* character count, so for a line containing a multi-byte character the    *)
(* last column reachable is character count - 1.                           *)
(***************************************************************************)
\* the number of characters of row r, 0 when there is no such row
CharCount(b, r) == IF r < Len(b) THEN Len(b[r + 1]) ELSE 0

\* p is a character of buffer b or column 0 of an empty line
OnCharacter(b, p) ==
    /\ p.row < Len(b)
    /\ p.col < CharCount(b, p.row) \/ (p.col = 0 /\ CharCount(b, p.row) = 0)

C26_LinesMeasuredInCharacters ==
    /\ IsStep("get_line_len") => applied.result = CharCount(buffer, applied.pre.position.row)
    /\ (/\ applied.op \in {"step_char", "step_line"}
        /\ OnCharacter(buffer, applied.pre.position)
        /\ applied.ok) => OnCharacter(buffer, pos)

(***************************************************************************)
(* C27: word_boundaries(line, col) returns none iff col is out of range or *)
(* the character at col is whitespace; otherwise it returns (start, end)   *)
(* with start <= col <= end such that every character in start..=end has   *)
(* the same class as the character at col (word class: alphanumeric or     *)
(* underscore; punctuation class: neither whitespace nor word class) and   *)
(* the run is maximal: the characters at start-1 and end+1, when they      *)
(* exist, are of a different class or whitespace.  Word and punctuation    *)
(* characters are never in one run.                                        *)
(***************************************************************************)
\* the class of a character of the buffers
ClassOf(c) ==
    IF c = " " THEN "space"
    ELSE IF c \in {"a", "b", "c", "_", "U+00E9"} THEN "word"
    ELSE "punctuation"

\* the character of line at column i
At(line, i) == line[i + 1]

C27_WordBoundaries ==
    IsStep("word_boundaries") =>
        LET line == buffer[applied.pre.position.row + 1]
            col == applied.pre.position.col
            r == applied.result
        IN IF col >= Len(line) \/ ClassOf(At(line, col)) = "space"
           THEN ~r.some
           ELSE /\ r.some
                /\ r.start <= col /\ col <= r.end /\ r.end < Len(line)
                /\ \A i \in r.start..r.end : ClassOf(At(line, i)) = ClassOf(At(line, col))
                /\ r.start > 0 => ClassOf(At(line, r.start - 1)) # ClassOf(At(line, col))
                /\ r.end + 1 < Len(line) =>
                       ClassOf(At(line, r.end + 1)) # ClassOf(At(line, col))

\* a word run holding an underscore, with punctuation on both sides
C27_Witness ==
    /\ IsStep("word_boundaries")
    /\ applied.result.some
    /\ applied.result.start = 1
    /\ applied.result.end = 2
    /\ Len(buffer[1]) = 4
    /\ \E i \in 1..2 : At(buffer[1], i) = "_"
    /\ ClassOf(At(buffer[1], 0)) = "punctuation"
    /\ ClassOf(At(buffer[1], 3)) = "punctuation"

(***************************************************************************)
(* C28: word_boundaries is idempotent on its own result: for every line    *)
(* and column, if word_boundaries(line, col) = Some((s, e)) then           *)
(* word_boundaries(line, s) = word_boundaries(line, e) = Some((s, e)), and *)
(* the same holds for every column between s and e.                        *)
(***************************************************************************)
C28_WordBoundariesIdempotent ==
    (IsStep("word_boundaries") /\ applied.result.some) =>
        \A c \in applied.result.start..applied.result.end :
            word_boundaries(buffer[applied.pre.position.row + 1], c) = applied.result

\* a run of three characters found from its middle column
C28_Witness ==
    /\ IsStep("word_boundaries")
    /\ applied.result.some
    /\ applied.result.start + 1 = applied.pre.position.col
    /\ applied.result.end = applied.pre.position.col + 1
    /\ word_boundaries(buffer[1], applied.result.start) = applied.result
    /\ word_boundaries(buffer[1], applied.result.end) = applied.result

(***************************************************************************)
(* C29: a word-start step (w) from a position inside a word or punctuation *)
(* run lands on the first stopping point after the end of that run that is *)
(* a non-whitespace character or an empty line, whichever comes first in   *)
(* buffer order (also on a later row); from whitespace it lands on the     *)
(* first such stopping point after the cursor.  In both cases the cursor   *)
(* never rests on a whitespace character when such a stopping point        *)
(* exists.  Stopping points are the columns get_line_len counts.           *)
(***************************************************************************)
\* the last column of the run of one class that holds column col of line
RunEnd(line, col) ==
    CHOOSE e \in col..(Len(line) - 1) :
        /\ \A i \in col..e : ClassOf(At(line, i)) = ClassOf(At(line, col))
        /\ e + 1 < Len(line) => ClassOf(At(line, e + 1)) # ClassOf(At(line, col))

\* stopping point q is not a whitespace character: it is a character other
\* than whitespace or an empty line, or a column that get_line_len counts
\* past the characters of a line with a multi-byte character (see C26)
WordStop(b, q) == ~(HasChar(b, q) /\ ClassOf(At(b[q.row + 1], q.col)) = "space")

\* where the search of a w step from p starts: the end of the run p is in,
\* or p itself on whitespace
WordStartAnchor(b, p) ==
    IF ClassOf(At(b[p.row + 1], p.col)) = "space" THEN p
    ELSE Position(p.row, RunEnd(b[p.row + 1], p.col))

C29_WordStart ==
    (/\ IsApply
     /\ applied.motion.kind = "WordStart"
     /\ applied.count.val = 1
     /\ HasChar(buffer, applied.pre.position)) =>
        LET anchor == WordStartAnchor(buffer, applied.pre.position)
            stops == {q \in StoppingPoints(buffer) :
                         Before(anchor, q) /\ WordStop(buffer, q)}
        IN stops # {} => pos = Nearest(stops, anchor, Forward)

\* a step from the first character of a run of two over the whitespace after
\* it onto the next row
C29_Witness ==
    /\ IsApply
    /\ applied.motion.kind = "WordStart"
    /\ applied.count.val = 1
    /\ HasChar(buffer, applied.pre.position)
    /\ ClassOf(At(buffer[applied.pre.position.row + 1], applied.pre.position.col)) # "space"
    /\ RunEnd(buffer[applied.pre.position.row + 1], applied.pre.position.col)
          = applied.pre.position.col + 1
    /\ is_space(buffer, Position(applied.pre.position.row, applied.pre.position.col + 2))
    /\ pos.row = applied.pre.position.row + 1
    /\ WordStop(buffer, pos)

(***************************************************************************)
(* C30: the word-end motion (e) advances at least one character and lands  *)
(* on the last character of the first run it enters (the current run if    *)
(* the cursor was not yet on its end, otherwise the next run, skipping     *)
(* whitespace and empty lines); after e_motion with any count >= 1 the     *)
(* cursor is never left on an empty line or on a whitespace character that *)
(* it was not already on before the motion.                                *)
(***************************************************************************)
\* q is the last character of a run
IsRunEnd(b, q) ==
    /\ HasChar(b, q)
    /\ ClassOf(At(b[q.row + 1], q.col)) # "space"
    /\ RunEnd(b[q.row + 1], q.col) = q.col

C30_WordEnd ==
    (/\ IsApply
     /\ applied.motion.kind = "WordEnd"
     /\ applied.count.val >= 1
     /\ OnBuffer(buffer, applied.pre.position)) =>
        LET p == applied.pre.position
            ends == {q \in StoppingPoints(buffer) : Before(p, q) /\ IsRunEnd(buffer, q)}
        IN /\ (applied.count.val = 1 /\ ends # {}) => pos = Nearest(ends, p, Forward)
           /\ pos # p => /\ ~is_empty_line(buffer, pos)
                         /\ ~is_space(buffer, pos)

(***************************************************************************)
(* C31: a word-backward step (b) from a position inside a run but not on   *)
(* its first character lands on that run's first character; from the      *)
(* first character of a run it skips backward over whitespace and lands on *)
(* the first character of the run it finds, or stays on the stopping point *)
(* reached when that is not inside a run (an empty line).  Stopping points *)
(* are the columns get_line_len counts.                                    *)
(***************************************************************************)
\* the first column of the run of one class that holds column col of line
RunStart(line, col) ==
    CHOOSE st \in 0..col :
        /\ \A i \in st..col : ClassOf(At(line, i)) = ClassOf(At(line, col))
        /\ st > 0 => ClassOf(At(line, st - 1)) # ClassOf(At(line, col))

\* p is a character of a word or punctuation run
InARun(b, p) == HasChar(b, p) /\ ClassOf(At(b[p.row + 1], p.col)) # "space"

C31_WordBackward ==
    (/\ IsApply
     /\ applied.motion.kind = "WordBackward"
     /\ applied.count.val = 1
     /\ InARun(buffer, applied.pre.position)) =>
        LET p == applied.pre.position
            st == RunStart(buffer[p.row + 1], p.col)
            stops == {q \in StoppingPoints(buffer) : Before(q, p) /\ WordStop(buffer, q)}
            q == Nearest(stops, p, Backward)
        IN IF p.col # st THEN pos = Position(p.row, st)
           ELSE stops # {} =>
                   IF InARun(buffer, q)
                   THEN pos = Position(q.row, RunStart(buffer[q.row + 1], q.col))
                   ELSE pos = q

\* a step from the first character of a run onto the first character of a
\* run of two on the row before
C31_Witness ==
    /\ IsApply
    /\ applied.motion.kind = "WordBackward"
    /\ applied.count.val = 1
    /\ InARun(buffer, applied.pre.position)
    /\ applied.pre.position.col = 0
    /\ pos.row + 1 = applied.pre.position.row
    /\ InARun(buffer, pos)
    /\ pos.col = RunStart(buffer[pos.row + 1], pos.col)
    /\ RunEnd(buffer[pos.row + 1], pos.col) > pos.col

(***************************************************************************)
(* C32: a BoundedQueue created with capacity n holds, after k pushes,      *)
(* exactly the last min(k, n) pushed items in push order, so never more    *)
(* than n items.                                                           *)
(***************************************************************************)
\* the last n items of s
LastItems(s, n) == SubSeq(s, Len(s) - n + 1, Len(s))

C33_CursorOnBuffer == buffer # <<>> => OnBuffer(buffer, cursor.position)

(***************************************************************************)
(* C34: handling ';' or ',' in Idle changes nothing but the key-event      *)
(* history: the input state and the motion history are as before the call. *)
(* So after f, x every key of a run of ',' and ';' keys returns the find    *)
(* of x in its own direction: ',' FindPrevChar(x), ';' FindNextChar(x),     *)
(* however many came before it.                                            *)
(***************************************************************************)
IsRepeatKey(key) == key = Char(";") \/ key = Char(",")

C34_RepeatKeepsHistory ==
    /\ (/\ last.op = "handle_key"
        /\ last.pre.state = Idle
        /\ IsRepeatKey(last.key)) =>
           /\ state = last.pre.state
           /\ motion_history = last.pre.motion_history
    /\ (/\ Len(keys) > 2
        /\ keys[1] = Char("f")
        /\ keys[2] = Char("x")
        /\ \A i \in 3..Len(keys) : IsRepeatKey(keys[i])) =>
           last.action = single_motion(Motion(IF last.key = Char(",")
                                              THEN "FindPrevChar"
                                              ELSE "FindNextChar", "x"))

\* the third ',' in a row after f, x
C34_Witness ==
    /\ keys = <<Char("f"), Char("x"), Char(","), Char(","), Char(",")>>
    /\ last.action = single_motion(Motion("FindPrevChar", "x"))
    /\ motion_history = last.pre.motion_history

(***************************************************************************)
(* C35: for the till motions the count has no effect: TillNextChar(c) and  *)
(* TillPrevChar(c) applied with a count n >= 1 from a stopping point end   *)
(* where they end with count 1.                                            *)
(***************************************************************************)
IsTill(motion) == motion.kind \in {"TillNextChar", "TillPrevChar"}

C35_TillCountHasNoEffect ==
    (/\ IsApply
     /\ IsTill(applied.motion)
     /\ applied.count.val >= 1
     /\ OnBuffer(buffer, applied.pre.position)) =>
        pos = apply(applied.motion, buffer, applied.pre.position, 1)

\* a till forward with count 3 that moved, with a second occurrence of the
\* target further on
C35_Witness ==
    /\ IsApply
    /\ applied.motion.kind = "TillNextChar"
    /\ applied.count = Some(3)
    /\ OnBuffer(buffer, applied.pre.position)
    /\ pos # applied.pre.position
    /\ pos = apply(applied.motion, buffer, applied.pre.position, 1)
    /\ Cardinality(Occurrences(buffer, applied.pre.position, applied.motion.ch, Forward)) > 1

(***************************************************************************)
(* C36: every successful word-backward step (b_motion_once returns true)   *)
(* from a stopping point, a whitespace character and an empty line         *)
(* included, leaves the cursor on the first character of a word or         *)
(* punctuation run or on an empty line.                                    *)
(***************************************************************************)
IsRunStart(b, q) == InARun(b, q) /\ q.col = RunStart(b[q.row + 1], q.col)

C36_WordBackwardLandsOnRunStart ==
    (/\ IsApply
     /\ applied.motion.kind = "WordBackward"
     /\ applied.count.val = 1
     /\ OnBuffer(buffer, applied.pre.position)
     /\ b_motion_once(buffer, applied.pre.position).ok) =>
        IsRunStart(buffer, pos) \/ is_empty_line(buffer, pos)

(***************************************************************************)
(* C37: the loops of step_char_skip_spaces, find_char and e_motion_once    *)
(* terminate on every buffer, direction, target and starting position, a   *)
(* position out of range included: every iteration returns or moves the    *)
(* position strictly further in the step direction.  Each iteration moves  *)
(* by one step_char; a step_char that returns true ends strictly further   *)
(* in its direction, forward on a stopping point of the buffer, so a walk  *)
(* forward is bounded by the buffer's end and a walk backward by (0, 0).   *)
(* Each loop that returns true has left the position strictly further.     *)
(***************************************************************************)
C37_LoopsAdvance ==
    /\ (IsStep("step_char") /\ applied.ok) =>
           /\ Ahead(applied.pre.position, pos, applied.direction)
           /\ applied.direction = Forward => OnBuffer(buffer, pos)
           /\ pos.row < rows(buffer)
    /\ (/\ \/ IsStep("step_char_skip_spaces")
            \/ IsStep("jump_to_char")
            \/ IsStep("e_motion_once")
        /\ applied.ok) =>
           /\ Ahead(applied.pre.position, pos, applied.direction)
           /\ OnBuffer(buffer, pos) \/ applied.direction = Backward
    /\ (IsStep("step_char") /\ ~applied.ok) => pos = applied.pre.position

\* e_motion_once from a column past the end of its line: the loop walked
\* over a space of the next row to the end of a run
C37_Witness ==
    /\ IsStep("e_motion_once")
    /\ applied.ok
    /\ ~OnBuffer(buffer, applied.pre.position)
    /\ applied.pre.position.row = 0
    /\ is_space(buffer, Position(1, 0))
    /\ pos.row = 1
    /\ pos.col > 0

(***************************************************************************)
(* C38: Viewport::adjust_for_cursor keeps the cursor visible: after a call *)
(* with visible_height > 0 and the cursor on a row of the buffer, from any *)
(* earlier viewport, visible_line_start <= cursor.row <                    *)
(* visible_line_start + visible_height, and visible_line_start is at most  *)
(* buffer_lines - visible_height (0 when the buffer is shorter than the    *)
(* window).                                                                *)
(***************************************************************************)
IsAdjust == applied.op = "adjust_for_cursor"

C38_CursorVisible ==
    (/\ IsAdjust
     /\ applied.visible_height > 0
     /\ applied.cursor.row < applied.buffer_lines) =>
        /\ viewport.visible_line_start <= applied.cursor.row
        /\ applied.cursor.row < viewport.visible_line_start + applied.visible_height
        /\ viewport.visible_line_start
              <= saturating_sub(applied.buffer_lines, applied.visible_height)

(***************************************************************************)
(* C39: after any interleaving of Enemies::tick and Enemies::destroy every *)
(* enemy id in 0..pool_size is in exactly one of the active map and the    *)
(* pool, so active count + pooled count = pool_size and at most pool_size  *)
(* enemies are active; destroying an id that is not active changes         *)
(* nothing.                                                                *)
(***************************************************************************)
ActiveIds == DOMAIN enemies.active
PooledIds == DOMAIN enemies.enemy_pool

C39_EnemyIdsPartitioned ==
    /\ ActiveIds \cap PooledIds = {}
    /\ ActiveIds \cup PooledIds = 0..(PoolSize - 1)
    /\ Cardinality(ActiveIds) + Cardinality(PooledIds) = PoolSize
    /\ Cardinality(ActiveIds) <= PoolSize
    /\ (applied.op = "destroy" /\ applied.id \notin DOMAIN applied.pre.active) =>
           enemies = applied.pre

\* every enemy was active and one of them has been destroyed
C39_Witness ==
    /\ applied.op = "destroy"
    /\ DOMAIN applied.pre.active = 0..(PoolSize - 1)
    /\ applied.id \in PooledIds
    /\ Cardinality(ActiveIds) = PoolSize - 1

(***************************************************************************)
(* C40: Buffer::random_position always returns: None at once for an empty  *)
(* buffer and, for every non-empty buffer, one whose lines are all of      *)
(* length 0 or all whitespace included, a position in the end when the     *)
(* random choice is fair.                                                  *)
(***************************************************************************)
C40_RandomPositionReturns ==
    /\ [](picking.op = "returned" =>
              IF is_empty(buffer) THEN ~picking.result.some ELSE picking.result.some)
    /\ (picking.op = "loop") ~> (picking.op = "returned")

====
